---- MODULE Spec2Model ----
(***************************************************************************)
(* A model of the spurs_survey pipeline: rating statistics, Man of the     *)
(* Match winner determination, the survey structure builder and the        *)
(* results compiler.                                                       *)
(*                                                                         *)
(* Text.  A Python str is modelled as a sequence of chunks.  A chunk is a  *)
(* one-character TLA+ string ("A", " ", "7") or a literal fragment of the  *)
(* source written as one chunk (" -- Rating" stands for the source's       *)
(* " <em dash> Rating").  The chunk alphabet is uniquely decodable, so two *)
(* chunk sequences are equal exactly when the strings they spell are.      *)
(* An f-string is the concatenation of its parts.                          *)
(*                                                                         *)
(* Numbers.  A Python float that results from sums and quotients of        *)
(* integers is modelled as the exact rational [num, den] in lowest terms;  *)
(* a square root is kept as its radicand, [sqrt |-> rational].             *)
(***************************************************************************)
EXTENDS Integers, Sequences, FiniteSets, TLC

VARIABLES
    pc,            \* position of the driver in the specification at hand
    values,        \* argument of _compute_rating_stats
    stats,         \* RatingStats returned by _compute_rating_stats
    match_data,    \* the MatchData the survey and the compiler work from
    sections,      \* list returned by build_survey_structure
    responses,     \* list of response dicts (title -> answer string)
    motm_winners,  \* list returned by _determine_motm_winners
    results,       \* CompiledResults returned by compile_responses
    results_file,  \* JSON document held by a match's results.json
    loaded,        \* CompiledResults returned by from_dict / load_results
    data_dir,      \* the data directory handed to build_site
    site,          \* the output directory written by build_site
    entries,       \* list of index entries handed to sort_matches / filter_matches
    criteria,      \* keyword arguments of filter_matches
    selected,      \* list returned by sort_matches / filter_matches
    files,         \* the image files the renderer looks at (path -> state)
    render_args,   \* arguments of _load_player_image and generate_infographic
    rows,          \* the starters distributed over the rows of the formation
    image,         \* image returned by _load_player_image
    output,        \* image written by generate_infographic
    espn_data,     \* ESPN summary handed to _parse_espn_response
    missing,       \* list returned by detect_missing_fields
    raised,        \* exception that left the modelled call ("None" when it returned)
    data_dict,     \* dict handed to detect_missing_fields
    cli_args,      \* argparse.Namespace of the subcommand (command, match_id, form_id)
    disk,          \* state of the files under DATA_DIR/<match_id> and ARCHIVE_DIR
    failing,       \* the external calls that raise in this run
    log,           \* what the command line driver has done so far, in order
    status,        \* how the last handler ended ("returned", "exit_1", "raised")
    stdin,         \* the lines input() has still to read
    permuted,      \* the response records in another order
    recompiled,    \* CompiledResults of the records in that order
    binary64       \* the statistics of both orders in IEEE 754 binary64

storeVars == <<results_file, loaded>>

archiveVars == <<data_dir, site, entries, criteria, selected>>

renderVars == <<files, render_args, rows, image, output>>

fetchVars == <<espn_data, missing, raised>>

cliVars == <<data_dict, cli_args, disk, failing, log, status, stdin>>

permVars == <<permuted, recompiled, binary64>>

vars == <<pc, values, stats, match_data, sections, responses, motm_winners, results, storeVars, archiveVars, renderVars, fetchVars, cliVars, permVars>>

(***************************************************************************)
(* Bounds of the model.                                                    *)
(***************************************************************************)
MaxRatings == 3      \* longest list handed to _compute_rating_stats alone
MaxVotes == 3        \* longest response list handed to _determine_motm_winners alone
MaxSubs == 2         \* most substitution events of a MatchData
MaxResponses == 2    \* most response records handed to compile_responses
MaxPermuted == 3     \* most response records compiled in two orders

(***************************************************************************)
(* Sequence helpers.                                                       *)
(***************************************************************************)
RECURSIVE SumSeq(_)
SumSeq(s) == IF s = <<>> THEN 0 ELSE Head(s) + SumSeq(Tail(s))

SeqsUpTo(S, n) == UNION {[1..k -> S] : k \in 0..n}

Range(s) == {s[i] : i \in DOMAIN s}

(***************************************************************************)
(* Exact rationals standing for Python floats.                             *)
(***************************************************************************)
Abs(n) == IF n < 0 THEN -n ELSE n

RECURSIVE GCD(_, _)
GCD(a, b) == IF b = 0 THEN a ELSE GCD(b, a % b)

Rat(n, d) ==
    LET g == GCD(Abs(n), d)
    IN  [num |-> n \div g, den |-> d \div g]

FromInt(n) == [num |-> n, den |-> 1]

RatAdd(a, b) == Rat(a.num * b.den + b.num * a.den, a.den * b.den)

RatSub(a, b) == Rat(a.num * b.den - b.num * a.den, a.den * b.den)

RatMul(a, b) == Rat(a.num * b.num, a.den * b.den)

RatDivInt(a, n) == Rat(a.num, a.den * n)

RatLeq(a, b) == a.num * b.den <= b.num * a.den

RECURSIVE RatSum(_)
RatSum(s) == IF s = <<>> THEN FromInt(0) ELSE RatAdd(Head(s), RatSum(Tail(s)))

\* np.mean of a non-empty array of floats
NpMean(arr) == RatDivInt(RatSum(arr), Len(arr))

\* np.std(arr, ddof): sqrt(sum(|x - mean|^2) / (N - ddof))
NpStd(arr, ddof) ==
    LET m   == NpMean(arr)
        dev == [i \in DOMAIN arr |-> RatSub(arr[i], m)]
        sq  == [i \in DOMAIN arr |-> RatMul(dev[i], dev[i])]
    IN  [sqrt |-> RatDivInt(RatSum(sq), Len(arr) - ddof)]

(***************************************************************************)
(* Python str operations on chunk sequences.                               *)
(***************************************************************************)
\* ord() of the one-character chunks that occur in names and answers
Ord(c) ==
    CASE c = " " -> 32
      [] c = "+" -> 43
      [] c = "-" -> 45
      [] c = "0" -> 48
      [] c = "1" -> 49
      [] c = "2" -> 50
      [] c = "3" -> 51
      [] c = "4" -> 52
      [] c = "5" -> 53
      [] c = "6" -> 54
      [] c = "7" -> 55
      [] c = "8" -> 56
      [] c = "9" -> 57
      [] c = "A" -> 65
      [] c = "B" -> 66
      [] c = "C" -> 67
      [] c = "D" -> 68
      [] c = "E" -> 69
      [] c = "F" -> 70
      [] c = "G" -> 71
      [] c = "H" -> 72
      [] c = "I" -> 73
      [] c = "J" -> 74
      [] c = "K" -> 75
      [] c = "S" -> 83
      [] c = "T" -> 84
      [] c = "Z" -> 90
      [] c = "x" -> 120
      [] OTHER -> 1000

IsSpace(c) == c = " "

\* str.lstrip / str.rstrip / str.strip
RECURSIVE LStrip(_)
LStrip(s) ==
    IF s # <<>> /\ IsSpace(Head(s)) THEN LStrip(Tail(s)) ELSE s

RECURSIVE RStrip(_)
RStrip(s) ==
    IF s # <<>> /\ IsSpace(s[Len(s)]) THEN RStrip(SubSeq(s, 1, Len(s) - 1)) ELSE s

Strip(s) == RStrip(LStrip(s))

\* a < b on str: the first differing character decides, a proper prefix is less
RECURSIVE StrLess(_, _)
StrLess(a, b) ==
    IF b = <<>> THEN FALSE
    ELSE IF a = <<>> THEN TRUE
    ELSE IF Head(a) = Head(b) THEN StrLess(Tail(a), Tail(b))
    ELSE Ord(Head(a)) < Ord(Head(b))

\* sorted(seq) on str: ascending, by insertion
RECURSIVE InsertSorted(_, _)
InsertSorted(x, s) ==
    IF s = <<>> THEN <<x>>
    ELSE IF StrLess(x, Head(s)) THEN <<x>> \o s
    ELSE <<Head(s)>> \o InsertSorted(x, Tail(s))

RECURSIVE Sorted(_)
Sorted(s) == IF s = <<>> THEN <<>> ELSE InsertSorted(Head(s), Sorted(Tail(s)))

Digits == {"0", "1", "2", "3", "4", "5", "6", "7", "8", "9"}

RECURSIVE DigitsValue(_)
DigitsValue(s) ==
    IF s = <<>> THEN 0
    ELSE 10 * DigitsValue(SubSeq(s, 1, Len(s) - 1)) + (Ord(s[Len(s)]) - Ord("0"))

\* int(raw) for a str: surrounding whitespace and one sign are accepted, the
\* rest must be decimal digits; ok = FALSE stands for ValueError
ParseInt(raw) ==
    LET s == Strip(raw)
        signed == s # <<>> /\ Head(s) \in {"+", "-"}
        body == IF signed THEN Tail(s) ELSE s
        ok == body # <<>> /\ \A i \in DOMAIN body : body[i] \in Digits
    IN  [ok |-> ok,
         value |-> IF ~ok THEN 0
                   ELSE IF signed /\ Head(s) = "-" THEN 0 - DigitsValue(body)
                   ELSE DigitsValue(body)]

\* dict.get(key) is not None, for a dict whose values are all str
HasKey(d, key) == key \in DOMAIN d

(***************************************************************************)
(* results.py: rating statistics.                                          *)
(***************************************************************************)
\* RatingStats(mean=..., std_dev=...)
RatingStats(mean, std_dev) == [mean |-> mean, std_dev |-> std_dev]

\* np.array(values, dtype=float)
NpArray(vals) == [i \in DOMAIN vals |-> FromInt(vals[i])]

\* np.std with ddof=1 (sample deviation); numpy yields nan for one element
compute_rating_stats_ddof1(vals) ==
    RatingStats(NpMean(NpArray(vals)),
                IF Len(vals) = 1 THEN [sqrt |-> [num |-> 0, den |-> 0]]
                ELSE NpStd(NpArray(vals), 1))

_compute_rating_stats(vals) ==
    RatingStats(NpMean(NpArray(vals)), NpStd(NpArray(vals), 0))

\* RatingStats(mean=0.0, std_dev=0.0)
ZeroStats == RatingStats(FromInt(0), [sqrt |-> FromInt(0)])

(***************************************************************************)
(* Values of the variables a specification does not use.                   *)
(***************************************************************************)
NoMatchData == [match_id |-> 0]

NoResults == [match_id |-> 0]

StatsIdle == values = <<>> /\ stats = ZeroStats

SurveyIdle == match_data = NoMatchData /\ sections = <<>>

CompileIdle == responses = <<>> /\ motm_winners = <<>> /\ results = NoResults

StoreIdle == results_file = <<>> /\ loaded = NoResults

ArchiveIdle == data_dir = <<>> /\ site = <<>> /\ entries = <<>> /\ criteria = <<>> /\ selected = <<>>

RenderIdle ==
    files = <<>> /\ render_args = <<>> /\ rows = <<>> /\ image = <<>> /\ output = <<>>

FetchIdle == espn_data = <<>> /\ missing = <<>> /\ raised = "None"

PermIdle == permuted = <<>> /\ recompiled = NoResults /\ binary64 = <<>>

CliIdle ==
    /\ data_dict = <<>>
    /\ cli_args = <<>>
    /\ disk = <<>>
    /\ failing = {}
    /\ log = <<>>
    /\ status = "none"
    /\ stdin = <<>>

(***************************************************************************)
(* SpecStats: _compute_rating_stats applied to every non-empty list of     *)
(* integers 0..10 of at most MaxRatings elements.                          *)
(***************************************************************************)
RatingScale == 0..10

RatingLists == SeqsUpTo(RatingScale, MaxRatings) \ {<<>>}

InitStats ==
    /\ PermIdle
    /\ pc = "stats_input"
    /\ values \in RatingLists
    /\ stats = ZeroStats
    /\ SurveyIdle
    /\ CompileIdle
    /\ StoreIdle
    /\ ArchiveIdle
    /\ RenderIdle
    /\ FetchIdle
    /\ CliIdle

ComputeRatingStats ==
    /\ pc = "stats_input"
    /\ stats' = _compute_rating_stats(values)
    /\ pc' = "stats_done"
    /\ UNCHANGED <<permVars, cliVars, storeVars, archiveVars, renderVars, fetchVars, values, match_data, sections, responses, motm_winners, results>>

NextStats == ComputeRatingStats

SpecStats == InitStats /\ [][NextStats]_vars

\* sum over i of (N * values[i] - S)^2, which is N^2 times the sum of squared
\* deviations from the mean S/N
RECURSIVE SumSqDevScaled(_, _, _)
SumSqDevScaled(s, N, S) ==
    IF s = <<>> THEN 0
    ELSE (N * Head(s) - S) * (N * Head(s) - S) + SumSqDevScaled(Tail(s), N, S)

\* C1: for every non-empty list of integers in 0..10 the returned mean is
\* sum/N and the returned std_dev is the square root of the mean squared
\* deviation (divided by N, not N-1); one element gives std_dev = 0.
C1_StatsArePopulationStats ==
    pc = "stats_done" =>
        LET N == Len(values)
            S == SumSeq(values)
            var == stats.std_dev.sqrt
        IN  /\ stats.mean.den > 0
            /\ stats.mean.num * N = S * stats.mean.den
            /\ var.den > 0
            /\ var.num * N * N * N = SumSqDevScaled(values, N, S) * var.den
            /\ (N = 1 => stats.std_dev = [sqrt |-> FromInt(0)])

\* a list of two different ratings has been evaluated: its deviation is not 0
C1_Witness ==
    /\ pc = "stats_done"
    /\ Len(values) >= 2
    /\ stats.std_dev.sqrt.num > 0

(***************************************************************************)
(* results.py: Man of the Match winner determination.                      *)
(***************************************************************************)
\* the votes list of _determine_motm_winners: the stripped non-blank answers
RECURSIVE MotmVotes(_, _)
MotmVotes(resps, motm_key) ==
    IF resps = <<>> THEN <<>>
    ELSE LET resp == Head(resps)
             rest == MotmVotes(Tail(resps), motm_key)
         IN  IF HasKey(resp, motm_key) /\ resp[motm_key] # <<>>
                   /\ Strip(resp[motm_key]) # <<>>
             THEN <<Strip(resp[motm_key])>> \o rest
             ELSE rest

\* Counter(votes): the keys in order of first occurrence, and the counts
RECURSIVE CounterKeys(_)
CounterKeys(votes) ==
    IF votes = <<>> THEN <<>>
    ELSE LET init == CounterKeys(SubSeq(votes, 1, Len(votes) - 1))
             last == votes[Len(votes)]
         IN  IF last \in Range(init) THEN init ELSE Append(init, last)

CounterCount(votes, name) == Cardinality({i \in DOMAIN votes : votes[i] = name})

MaxOf(S) == CHOOSE m \in S : \A n \in S : n <= m

\* [name for name, cnt in counts.items() if cnt == max_count]
NamesWithMaxCount(votes) ==
    LET keys == CounterKeys(votes)
        max_count == MaxOf({CounterCount(votes, keys[i]) : i \in DOMAIN keys})
    IN  SelectSeq(keys, LAMBDA name : CounterCount(votes, name) = max_count)

\* the same without the call of sorted(): winners in order of first vote
determine_motm_winners_unsorted(resps, motm_key) ==
    LET votes == MotmVotes(resps, motm_key)
    IN  IF votes = <<>> THEN <<>> ELSE NamesWithMaxCount(votes)

_determine_motm_winners(resps, motm_key) ==
    LET votes == MotmVotes(resps, motm_key)
    IN  IF votes = <<>> THEN <<>> ELSE Sorted(NamesWithMaxCount(votes))

(***************************************************************************)
(* SpecMotm: _determine_motm_winners applied to every list of at most      *)
(* MaxVotes response records, each without a vote or with one vote.        *)
(***************************************************************************)
MotmKey == <<"Man of the Match">>

EmptyDict == <<>>

\* answers to the vote question: empty, blank, names, padded names
VoteAnswers ==
    { <<>>, <<" ">>, <<"A">>, <<"B">>, <<"A", "B">>, <<" ", "A">>, <<"B", " ">> }

VoteRecords == {EmptyDict} \cup {[k \in {MotmKey} |-> v] : v \in VoteAnswers}

InitMotm ==
    /\ PermIdle
    /\ pc = "motm_input"
    /\ responses \in SeqsUpTo(VoteRecords, MaxVotes)
    /\ motm_winners = <<>>
    /\ results = NoResults
    /\ StatsIdle
    /\ SurveyIdle
    /\ StoreIdle
    /\ ArchiveIdle
    /\ RenderIdle
    /\ FetchIdle
    /\ CliIdle

DetermineMotmWinners ==
    /\ pc = "motm_input"
    /\ motm_winners' = _determine_motm_winners(responses, MotmKey)
    /\ pc' = "motm_done"
    /\ UNCHANGED <<permVars, cliVars, storeVars, archiveVars, renderVars, fetchVars, values, stats, match_data, sections, responses, results>>

NextMotm == DetermineMotmWinners

SpecMotm == InitMotm /\ [][NextMotm]_vars

\* a is before b in lexicographic order of code points
LexBefore(a, b) ==
    \E k \in 1..(Len(b)) :
        /\ \A i \in 1..(k - 1) : i <= Len(a) /\ a[i] = b[i]
        /\ \/ Len(a) = k - 1
           \/ Len(a) >= k /\ Ord(a[k]) < Ord(b[k])

\* the name a response record votes for (surrounding whitespace removed);
\* <<>> when the record has no vote or a blank one
VotedName(resp) == IF HasKey(resp, MotmKey) THEN Strip(resp[MotmKey]) ELSE <<>>

VoteTally(resps, name) ==
    Cardinality({i \in DOMAIN resps : VotedName(resps[i]) = name})

TopVoted(resps) ==
    LET names == {VotedName(resps[i]) : i \in DOMAIN resps} \ {<<>>}
    IN  {n \in names : \A m \in names : VoteTally(resps, m) <= VoteTally(resps, n)}

\* C2: the winners are exactly the names with the maximum number of
\* non-blank votes, every tied name kept, in ascending lexicographic order
\* without repetition; with no valid vote the list is empty.
C2_WinnersAreSortedTopVoted ==
    pc = "motm_done" =>
        /\ Range(motm_winners) = TopVoted(responses)
        /\ \A i, j \in DOMAIN motm_winners :
               i < j => LexBefore(motm_winners[i], motm_winners[j])
        /\ (TopVoted(responses) = {} => motm_winners = <<>>)

\* a three-way tie, first voted for in descending order
C2_Witness ==
    /\ pc = "motm_done"
    /\ Len(motm_winners) = 3
    /\ Len(responses) = 3
    /\ VotedName(responses[1]) = <<"B">>
    /\ VotedName(responses[3]) = <<"A">>

(***************************************************************************)
(* models.py: match data.                                                  *)
(***************************************************************************)
\* PlayerInfo(name, position): image_path and shirt_number default to None
PlayerInfo(name, position) ==
    [name |-> name, position |-> position, image_path |-> "None", shirt_number |-> "None"]

SubstitutionEvent(player_in, player_out, minute) ==
    [player_in |-> player_in, player_out |-> player_out, minute |-> minute]

MatchData(home_team, away_team, coach, starting_players, substitutions, is_home) ==
    [match_id |-> 1,
     home_team |-> home_team,
     away_team |-> away_team,
     competition |-> <<"Premier League">>,
     matchday |-> <<"Week 3">>,
     date |-> <<"2024-09-01">>,
     venue |-> <<"Tottenham Hotspur Stadium">>,
     home_score |-> 2,
     away_score |-> 1,
     formation |-> <<"4-3-3">>,
     coach |-> coach,
     starting_players |-> starting_players,
     substitutions |-> substitutions,
     is_tottenham_home |-> is_home]

(***************************************************************************)
(* survey.py: the survey structure builder.                                *)
(***************************************************************************)
SECTION_RATING_SCALE == "rating_scale_description"
SECTION_TEAM_RATING == "team_rating"
SECTION_OPPONENT_RATING == "opponent_rating"
SECTION_COACH_STARTING_XI == "coach_starting_eleven"
SECTION_COACH_TACTICS == "coach_on_field_tactics"
SECTION_COACH_SUBS == "coach_substitutions"
SECTION_REFEREE_RATING == "referee_rating"
SECTION_STARTER_RATING == "starter_rating"
SECTION_SUB_RATING == "sub_rating"
SECTION_MOTM == "motm_vote"

\* str(i) for 0 <= i <= 10
StrOfRating(i) ==
    CASE i = 0 -> <<"0">> [] i = 1 -> <<"1">> [] i = 2 -> <<"2">>
      [] i = 3 -> <<"3">> [] i = 4 -> <<"4">> [] i = 5 -> <<"5">>
      [] i = 6 -> <<"6">> [] i = 7 -> <<"7">> [] i = 8 -> <<"8">>
      [] i = 9 -> <<"9">> [] i = 10 -> <<"1", "0">>

\* [str(i) for i in range(11)]
RATING_CHOICES == [i \in 1..11 |-> StrOfRating(i - 1)]

\* a section without and with "player_name"
Section(type, title, choices) == [type |-> type, title |-> title, choices |-> choices]

PlayerSection(type, title, choices, player_name) ==
    [type |-> type, title |-> title, choices |-> choices, player_name |-> player_name]

\* opponent and coach_name as build_survey_structure resolves them
SurveyOpponent(md) ==
    IF md.is_tottenham_home THEN md.away_team ELSE md.home_team

SurveyCoachName(md) == IF md.coach # <<>> THEN md.coach ELSE <<"Manager">>

\* sub_names = [sub.player_in for sub in match_data.substitutions]
SubNames(md) == [i \in DOMAIN md.substitutions |-> md.substitutions[i].player_in]

StarterNames(md) == [i \in DOMAIN md.starting_players |-> md.starting_players[i].name]

\* the starters' sections with the same title for all
starter_sections_title_without_name(md) ==
    [i \in DOMAIN md.starting_players |->
        PlayerSection(SECTION_STARTER_RATING, <<" -- Rating">>, RATING_CHOICES,
                      md.starting_players[i].name)]

StarterSections(md) ==
    [i \in DOMAIN md.starting_players |->
        PlayerSection(SECTION_STARTER_RATING,
                      md.starting_players[i].name \o <<" -- Rating">>,
                      RATING_CHOICES,
                      md.starting_players[i].name)]

SubSections(md) ==
    [i \in DOMAIN SubNames(md) |->
        PlayerSection(SECTION_SUB_RATING,
                      SubNames(md)[i] \o <<" -- Rating">>,
                      RATING_CHOICES,
                      SubNames(md)[i])]

FixedSections(md) ==
    << Section(SECTION_RATING_SCALE, <<"Rating Scale">>, <<>>),
       Section(SECTION_TEAM_RATING, <<"Tottenham Hotspur", " -- Team Rating">>, RATING_CHOICES),
       Section(SECTION_OPPONENT_RATING, SurveyOpponent(md) \o <<" -- Team Rating">>, RATING_CHOICES),
       Section(SECTION_COACH_STARTING_XI,
               SurveyCoachName(md) \o <<" -- Starting Eleven Selection">>, RATING_CHOICES),
       Section(SECTION_COACH_TACTICS,
               SurveyCoachName(md) \o <<" -- On-Field Tactics">>, RATING_CHOICES),
       Section(SECTION_COACH_SUBS,
               SurveyCoachName(md) \o <<" -- Substitution Decisions">>, RATING_CHOICES),
       Section(SECTION_REFEREE_RATING, <<"Referee Rating">>, RATING_CHOICES) >>

\* the MOTM section with every name listed once
motm_section_deduplicated(md) ==
    Section(SECTION_MOTM, <<"Man of the Match">>, CounterKeys(StarterNames(md) \o SubNames(md)))

\* all_player_names = [p.name for p in starting_players] + sub_names
MotmSection(md) ==
    Section(SECTION_MOTM, <<"Man of the Match">>, StarterNames(md) \o SubNames(md))

\* the builder with the substitute sections placed before the starters'
build_survey_structure_subs_first(md) ==
    FixedSections(md) \o SubSections(md) \o StarterSections(md) \o <<MotmSection(md)>>

build_survey_structure(md) ==
    FixedSections(md) \o StarterSections(md) \o SubSections(md) \o <<MotmSection(md)>>

(***************************************************************************)
(* SpecSurvey: build_survey_structure applied to every MatchData of        *)
(* SurveyMatchDatas.                                                       *)
(***************************************************************************)
TOTTENHAM == <<"Tottenham Hotspur">>

OpponentNames == { <<"Newcastle">> }

CoachNames == { <<>>, <<"Ange">> }

\* number of starting players of a complete MatchData
ELEVEN == 11

Squad ==
    << <<"A">>, <<"B">>, <<"C">>, <<"D">>, <<"E">>, <<"F">>,
       <<"G">>, <<"H">>, <<"I">>, <<"J">>, <<"K">> >>

Lineup(names) == [i \in DOMAIN names |-> PlayerInfo(names[i], "MF")]

\* eleven distinct starters; eleven with one name twice; two; none; eleven
\* among whom one is named like the opponent, one like the coach and one
\* like the club
Lineups ==
    { Lineup(Squad),
      Lineup([Squad EXCEPT ![ELEVEN] = <<"A">>]),
      Lineup(SubSeq(Squad, 1, 2)),
      Lineup(<<>>),
      Lineup([Squad EXCEPT ![1] = <<"Newcastle">>, ![2] = <<"Ange">>,
                           ![3] = <<"Tottenham Hotspur">>]) }

\* incoming players: two who did not start, one who is also in the line-up
SubInNames == { <<"S">>, <<"T">>, <<"A">> }

SubstitutionLists ==
    { [i \in DOMAIN ins |-> SubstitutionEvent(ins[i], <<"B">>, 60)] :
        ins \in SeqsUpTo(SubInNames, MaxSubs) }

MatchDatas(lineups, subLists) ==
    { MatchData(IF home THEN TOTTENHAM ELSE opp, IF home THEN opp ELSE TOTTENHAM,
                coach, lineup, subs, home) :
        home \in BOOLEAN, opp \in OpponentNames, coach \in CoachNames,
        lineup \in lineups, subs \in subLists }

\* an away match read from a file without "is_tottenham_home": from_dict
\* sets the flag to True, its default
DefaultedHomeFlag ==
    { MatchData(opp, TOTTENHAM, coach, Lineup(Squad), subs, TRUE) :
        opp \in OpponentNames, coach \in CoachNames, subs \in SubstitutionLists }

SurveyMatchDatas == MatchDatas(Lineups, SubstitutionLists) \cup DefaultedHomeFlag

InitSurvey ==
    /\ PermIdle
    /\ pc = "survey_input"
    /\ match_data \in SurveyMatchDatas
    /\ sections = <<>>
    /\ StatsIdle
    /\ CompileIdle
    /\ StoreIdle
    /\ ArchiveIdle
    /\ RenderIdle
    /\ FetchIdle
    /\ CliIdle

BuildSurveyStructure ==
    /\ pc = "survey_input"
    /\ sections' = build_survey_structure(match_data)
    /\ pc' = "survey_built"
    /\ UNCHANGED <<permVars, cliVars, storeVars, archiveVars, renderVars, fetchVars, values, stats, match_data, responses, motm_winners, results>>

NextSurvey == BuildSurveyStructure

SpecSurvey == InitSurvey /\ [][NextSurvey]_vars

SectionTypes == [i \in DOMAIN sections |-> sections[i].type]

Repeat(x, n) == [i \in 1..n |-> x]

FixedKinds ==
    << SECTION_RATING_SCALE, SECTION_TEAM_RATING, SECTION_OPPONENT_RATING,
       SECTION_COACH_STARTING_XI, SECTION_COACH_TACTICS, SECTION_COACH_SUBS,
       SECTION_REFEREE_RATING >>

\* C3: for a MatchData with 11 starters and N substitutions the section
\* types are the 7 fixed kinds, 11 starter ratings in roster order, N sub
\* ratings in event order, then one MOTM section: 7 + 11 + N + 1 in all.
C3_SectionOrder ==
    (pc = "survey_built" /\ Len(match_data.starting_players) = ELEVEN) =>
        LET N == Len(match_data.substitutions)
        IN  /\ SectionTypes = FixedKinds \o Repeat(SECTION_STARTER_RATING, ELEVEN)
                                 \o Repeat(SECTION_SUB_RATING, N) \o <<SECTION_MOTM>>
            /\ Len(sections) = 7 + ELEVEN + N + 1
            /\ \A i \in 1..ELEVEN :
                   sections[7 + i].player_name = match_data.starting_players[i].name
            /\ \A j \in 1..N :
                   sections[7 + ELEVEN + j].player_name = match_data.substitutions[j].player_in
            /\ (N = 0 => \A i \in DOMAIN sections : sections[i].type # SECTION_SUB_RATING)

\* a complete MatchData with two different substitutes has been built
C3_Witness ==
    /\ pc = "survey_built"
    /\ Len(match_data.starting_players) = ELEVEN
    /\ Len(match_data.substitutions) = 2
    /\ sections[19].player_name # sections[20].player_name

(***************************************************************************)
(* results.py: the results compiler.                                       *)
(***************************************************************************)
\* _extract_ratings with an unparsable answer counted as 0 instead of skipped
RECURSIVE extract_ratings_unparsable_as_zero(_, _)
extract_ratings_unparsable_as_zero(resps, key) ==
    IF resps = <<>> THEN <<>>
    ELSE LET resp == Head(resps)
             rest == extract_ratings_unparsable_as_zero(Tail(resps), key)
         IN  IF HasKey(resp, key) /\ resp[key] # <<>>
             THEN <<ParseInt(resp[key]).value>> \o rest
             ELSE rest

\* values collected by _extract_ratings(responses, key)
RECURSIVE _extract_ratings(_, _)
_extract_ratings(resps, key) ==
    IF resps = <<>> THEN <<>>
    ELSE LET resp == Head(resps)
             rest == _extract_ratings(Tail(resps), key)
         IN  IF HasKey(resp, key) /\ resp[key] # <<>> /\ ParseInt(resp[key]).ok
             THEN <<ParseInt(resp[key]).value>> \o rest
             ELSE rest

\* the nested _stats_for(key) of compile_responses
_stats_for(resps, key) ==
    LET vals == _extract_ratings(resps, key)
    IN  IF vals = <<>> THEN ZeroStats ELSE _compute_rating_stats(vals)

\* opponent and coach_name as compile_responses resolves them
compile_opponent_swapped(md) ==
    IF md.is_tottenham_home THEN md.home_team ELSE md.away_team

CompileOpponent(md) ==
    IF md.is_tottenham_home THEN md.away_team ELSE md.home_team

CompileCoachName(md) == IF md.coach # <<>> THEN md.coach ELSE <<"Manager">>

team_key == <<"Tottenham Hotspur", " -- Team Rating">>
opponent_key(md) == CompileOpponent(md) \o <<" -- Team Rating">>
referee_key == <<"Referee Rating">>
coach_xi_key(md) == CompileCoachName(md) \o <<" -- Starting Eleven Selection">>
coach_tactics_key(md) == CompileCoachName(md) \o <<" -- On-Field Tactics">>
coach_subs_key(md) == CompileCoachName(md) \o <<" -- Substitution Decisions">>
motm_key == <<"Man of the Match">>
player_key(name) == name \o <<" -- Rating">>

CoachRatings(name, starting_eleven, on_field_tactics, substitutions) ==
    [name |-> name, starting_eleven |-> starting_eleven,
     on_field_tactics |-> on_field_tactics, substitutions |-> substitutions]

\* PlayerRating(...) with the dataclass defaults goals = assists = own_goals = 0
PlayerRating(name, position, image_path, rating, is_starter, is_motm) ==
    [name |-> name, position |-> position, image_path |-> image_path, rating |-> rating,
     is_starter |-> is_starter, goals |-> 0, assists |-> 0, own_goals |-> 0,
     is_motm |-> is_motm]

\* home_score or 0, away_score or 0: the scores of the modelled matches are set
MatchMetadata(md, opponent) ==
    [opponent |-> opponent, competition |-> md.competition, matchday |-> md.matchday,
     date |-> md.date, venue |-> md.venue, home_score |-> md.home_score,
     away_score |-> md.away_score, is_tottenham_home |-> md.is_tottenham_home]

\* only the first winner of a tie is flagged
is_motm_first_winner_only(name, winners) == winners # <<>> /\ name = winners[1]

\* pr.is_motm = pr.name in motm_set
IsMotm(name, winners) == name \in Range(winners)

\* the means of the starters alone
all_player_means_starters_only(starters, subs) ==
    [i \in DOMAIN starters |-> starters[i].rating.mean]

\* [pr.rating.mean for pr in starters] + [pr.rating.mean for pr in subs]
AllPlayerMeans(starters, subs) ==
    [i \in DOMAIN starters |-> starters[i].rating.mean]
    \o [i \in DOMAIN subs |-> subs[i].rating.mean]

\* float(np.mean(all_player_means)) if all_player_means else 0.0
OverallRating(all_player_means) ==
    IF all_player_means = <<>> THEN FromInt(0) ELSE NpMean(all_player_means)

compile_responses(resps, md) ==
    LET winners == _determine_motm_winners(resps, motm_key)
        starting_player_ratings ==
            [i \in DOMAIN md.starting_players |->
                PlayerRating(md.starting_players[i].name,
                             md.starting_players[i].position,
                             md.starting_players[i].image_path,
                             _stats_for(resps, player_key(md.starting_players[i].name)),
                             TRUE,
                             IsMotm(md.starting_players[i].name, winners))]
        substitute_player_ratings ==
            [i \in DOMAIN SubNames(md) |->
                PlayerRating(SubNames(md)[i],
                             "SUB",
                             "None",
                             _stats_for(resps, player_key(SubNames(md)[i])),
                             FALSE,
                             IsMotm(SubNames(md)[i], winners))]
        all_player_means == AllPlayerMeans(starting_player_ratings, substitute_player_ratings)
    IN  [match_id |-> md.match_id,
         match_metadata |-> MatchMetadata(md, CompileOpponent(md)),
         team_rating |-> _stats_for(resps, team_key),
         opponent_rating |-> _stats_for(resps, opponent_key(md)),
         referee_rating |-> _stats_for(resps, referee_key),
         coach_ratings |-> CoachRatings(CompileCoachName(md),
                                        _stats_for(resps, coach_xi_key(md)),
                                        _stats_for(resps, coach_tactics_key(md)),
                                        _stats_for(resps, coach_subs_key(md))),
         overall_rating |-> OverallRating(all_player_means),
         starting_player_ratings |-> starting_player_ratings,
         substitute_player_ratings |-> substitute_player_ratings,
         motm_winners |-> winners,
         total_responses |-> Len(resps),
         formation |-> md.formation]

(***************************************************************************)
(* Properties of the survey structure, under SpecSurvey.                   *)
(***************************************************************************)
MotmSections == SelectSeq(sections, LAMBDA sec : sec.type = SECTION_MOTM)

NumStarters == Len(match_data.starting_players)

NumSubs == Len(match_data.substitutions)

C5_MotmChoicesListEveryPlayerOnce ==
    pc = "survey_built" =>
        LET choices == MotmSections[1].choices
        IN  /\ Range(choices) =
                   {match_data.starting_players[i].name : i \in 1..NumStarters}
                   \cup {match_data.substitutions[j].player_in : j \in 1..NumSubs}
            /\ \A i, j \in DOMAIN choices : i # j => choices[i] # choices[j]

\* C6: the title of every rating section and of the MOTM section is the key
\* compile_responses reads for that statistic; the opponent is away_team when
\* Tottenham is home and home_team otherwise, the coach is named "Manager"
\* when the coach field is empty.
C6_TitlesAreCompileKeys ==
    pc = "survey_built" =>
        /\ sections[2].title = team_key
        /\ sections[3].title = opponent_key(match_data)
        /\ sections[4].title = coach_xi_key(match_data)
        /\ sections[5].title = coach_tactics_key(match_data)
        /\ sections[6].title = coach_subs_key(match_data)
        /\ sections[7].title = referee_key
        /\ \A i \in 1..NumStarters :
               sections[7 + i].title = player_key(match_data.starting_players[i].name)
        /\ \A j \in 1..NumSubs :
               sections[7 + NumStarters + j].title =
                   player_key(match_data.substitutions[j].player_in)
        /\ sections[Len(sections)].title = motm_key
        /\ sections[3].title =
               (IF match_data.is_tottenham_home THEN match_data.away_team
                ELSE match_data.home_team) \o <<" -- Team Rating">>
        /\ sections[4].title =
               (IF match_data.coach = <<>> THEN <<"Manager">> ELSE match_data.coach)
               \o <<" -- Starting Eleven Selection">>

\* an away match without a coach name and with a substitute has been built
C6_Witness ==
    /\ pc = "survey_built"
    /\ ~match_data.is_tottenham_home
    /\ match_data.coach = <<>>
    /\ NumSubs > 0
    /\ sections[3].title = <<"Newcastle", " -- Team Rating">>

(***************************************************************************)
(* SpecCompile: the survey of a MatchData is built, the form service       *)
(* returns at most MaxResponses response records keyed by the titles of    *)
(* the survey's questions, and compile_responses compiles them.            *)
(***************************************************************************)
\* (line-up, incoming substitutes): nobody; two starters and a fresh
\* substitute; two starters and a substitute bearing a starter's name
CompileSquads ==
    { <<Lineup(<<>>), <<>>>>,
      <<Lineup(SubSeq(Squad, 1, 2)), <<SubstitutionEvent(<<"S">>, <<"B">>, 60)>>>>,
      <<Lineup(SubSeq(Squad, 1, 2)), <<SubstitutionEvent(<<"A">>, <<"B">>, 60)>>>> }

\* home matches with the coach named, away matches with the coach field empty
CompileMatchDatas ==
    { MatchData(IF home THEN TOTTENHAM ELSE opp, IF home THEN opp ELSE TOTTENHAM,
                IF home THEN <<"Ange">> ELSE <<>>, sq[1], sq[2], home) :
        home \in BOOLEAN, opp \in OpponentNames, sq \in CompileSquads }

\* a question left unanswered
NoAnswer == <<"(no answer)">>

\* answers to a rating question: none, empty, not a number, 4, 10, 11
RatingAnswers ==
    { NoAnswer, <<>>, <<"x">>, <<"4">>, <<"1", "0">>, <<"1", "1">> }

\* answers to the vote: none, a starter, a padded starter, the substitute,
\* a name that is not in the match
SheetVotes == { NoAnswer, <<"A">>, <<"B", " ">>, <<"S">>, <<"Z">> }

\* answers that are integers
NumericAnswers == { <<"4">>, <<"1", "0">>, <<"1", "1">> }

\* a respondent's sheet: answer a to the odd-numbered sections, answer b to
\* the even-numbered ones, vote v.  A sheet without a vote gives the same
\* answer throughout, or answers only the odd or only the even sections, or
\* gives two numbers; a sheet with a vote rates the odd sections 10.
Sheets ==
    { [a |-> a, b |-> b, v |-> NoAnswer] :
        <<a, b>> \in { p \in RatingAnswers \X RatingAnswers :
                        \/ p[1] = p[2]
                        \/ p[1] = NoAnswer
                        \/ p[2] = NoAnswer
                        \/ p[1] \in NumericAnswers /\ p[2] \in NumericAnswers } }
    \cup { [a |-> <<"1", "0">>, b |-> NoAnswer, v |-> v] : v \in SheetVotes }

SheetAnswer(secs, i, sheet) ==
    IF secs[i].type = SECTION_RATING_SCALE THEN NoAnswer
    ELSE IF secs[i].type = SECTION_MOTM THEN sheet.v
    ELSE IF i % 2 = 1 THEN sheet.a ELSE sheet.b

\* row[title] = value for every answered question, in section order
RECURSIVE ResponseRow(_, _, _)
ResponseRow(secs, n, sheet) ==
    IF n = 0 THEN EmptyDict
    ELSE LET row == ResponseRow(secs, n - 1, sheet)
             ans == SheetAnswer(secs, n, sheet)
         IN  IF ans = NoAnswer THEN row
             ELSE [t \in DOMAIN row \cup {secs[n].title} |->
                      IF t = secs[n].title THEN ans ELSE row[t]]

ResponseRows(secs) == {ResponseRow(secs, Len(secs), sheet) : sheet \in Sheets}

InitCompile ==
    /\ PermIdle
    /\ pc = "survey_input"
    /\ match_data \in CompileMatchDatas
    /\ sections = <<>>
    /\ StatsIdle
    /\ CompileIdle
    /\ StoreIdle
    /\ ArchiveIdle
    /\ RenderIdle
    /\ FetchIdle
    /\ CliIdle

FetchResponses ==
    /\ pc = "survey_built"
    /\ responses' \in SeqsUpTo(ResponseRows(sections), MaxResponses)
    /\ pc' = "responses_fetched"
    /\ UNCHANGED <<permVars, cliVars, storeVars, archiveVars, renderVars, fetchVars, values, stats, match_data, sections, motm_winners, results>>

CompileResponses ==
    /\ pc = "responses_fetched"
    /\ results' = compile_responses(responses, match_data)
    /\ pc' = "compiled"
    /\ UNCHANGED <<permVars, cliVars, storeVars, archiveVars, renderVars, fetchVars, values, stats, match_data, sections, responses, motm_winners>>

NextCompile ==
    \/ BuildSurveyStructure
    \/ FetchResponses
    \/ CompileResponses

SpecCompile == InitCompile /\ [][NextCompile]_vars

(***************************************************************************)
(* Properties of the compiled results, under SpecCompile.                  *)
(***************************************************************************)
\* the player ratings of the results, starters then substitutes
CompiledPlayers == results.starting_player_ratings \o results.substitute_player_ratings

\* C7: overall_rating is the arithmetic mean of the means of all player
\* ratings, one per entry of the starting and substitute lists, and is 0.0
\* when there is no player.
C7_OverallIsMeanOfPlayerMeans ==
    pc = "compiled" =>
        /\ Len(results.starting_player_ratings) = NumStarters
        /\ Len(results.substitute_player_ratings) = NumSubs
        /\ IF Len(CompiledPlayers) = 0 THEN results.overall_rating = FromInt(0)
           ELSE RatMul(results.overall_rating, FromInt(Len(CompiledPlayers)))
                = RatSum([i \in DOMAIN CompiledPlayers |-> CompiledPlayers[i].rating.mean])

\* two starters with different means and a substitute have been averaged
C7_Witness ==
    /\ pc = "compiled"
    /\ NumSubs > 0
    /\ results.starting_player_ratings[1].rating.mean
           # results.starting_player_ratings[2].rating.mean
    /\ results.substitute_player_ratings[1].rating.mean # FromInt(0)
    /\ results.overall_rating # results.starting_player_ratings[1].rating.mean
    /\ results.overall_rating # results.starting_player_ratings[2].rating.mean

\* the rating questions of the survey with the statistic compiled for each
RatingQuestions ==
    { <<sections[2].title, results.team_rating>>,
      <<sections[3].title, results.opponent_rating>>,
      <<sections[4].title, results.coach_ratings.starting_eleven>>,
      <<sections[5].title, results.coach_ratings.on_field_tactics>>,
      <<sections[6].title, results.coach_ratings.substitutions>>,
      <<sections[7].title, results.referee_rating>> }
    \cup {<<sections[7 + i].title, CompiledPlayers[i].rating>> : i \in DOMAIN CompiledPlayers}

\* the records whose answer to the question is present, non-empty and an integer
Surviving(title) ==
    {i \in DOMAIN responses :
        /\ title \in DOMAIN responses[i]
        /\ responses[i][title] # <<>>
        /\ ParseInt(responses[i][title]).ok}

RECURSIVE SumAnswers(_, _)
SumAnswers(title, S) ==
    IF S = {} THEN 0
    ELSE LET i == CHOOSE x \in S : TRUE
         IN  ParseInt(responses[i][title]).value + SumAnswers(title, S \ {i})

\* C8: for every rating question the missing, empty and unparsable answers
\* are left out: the mean is the mean of the surviving integers, and with
\* no surviving value (also with no response at all) the statistic is
\* exactly mean 0, std_dev 0.
C8_BadAnswersDiscarded ==
    pc = "compiled" =>
        \A q \in RatingQuestions :
            LET S == Surviving(q[1])
            IN  IF S = {} THEN q[2] = ZeroStats
                ELSE /\ q[2].mean.den > 0
                     /\ q[2].mean.num * Cardinality(S) = SumAnswers(q[1], S) * q[2].mean.den

\* the team question got one unparsable and one valid answer
C8_Witness ==
    /\ pc = "compiled"
    /\ Len(responses) = 2
    /\ sections[2].title \in DOMAIN responses[1]
    /\ responses[1][sections[2].title] = <<"x">>
    /\ Surviving(sections[2].title) = {2}
    /\ results.team_rating.mean = FromInt(4)
    /\ results.referee_rating = ZeroStats

\* C9: every value handed to the statistics is an integer in 0..10, so every
\* compiled mean lies in [0, 10].
C9_RatingsWithinScale ==
    pc = "compiled" =>
        \A q \in RatingQuestions :
            /\ \A i \in DOMAIN _extract_ratings(responses, q[1]) :
                   _extract_ratings(responses, q[1])[i] \in RatingScale
            /\ RatLeq(FromInt(0), q[2].mean)
            /\ RatLeq(q[2].mean, FromInt(10))

\* C10: a player rating, starter or substitute, has is_motm exactly when the
\* player's name is in motm_winners, the names with the most votes; on a tie
\* every tied player in the lists is flagged.
C10_FlagIffWinner ==
    pc = "compiled" =>
        /\ Range(results.motm_winners) = TopVoted(responses)
        /\ \A i \in DOMAIN CompiledPlayers :
               CompiledPlayers[i].is_motm <=>
                   CompiledPlayers[i].name \in Range(results.motm_winners)

\* a tie between a starter and the substitute: both flagged, the other
\* starter not
C10_Witness ==
    /\ pc = "compiled"
    /\ Len(results.motm_winners) = 2
    /\ \E i \in DOMAIN results.starting_player_ratings :
           results.starting_player_ratings[i].is_motm
    /\ \E i \in DOMAIN results.starting_player_ratings :
           ~results.starting_player_ratings[i].is_motm
    /\ \E j \in DOMAIN results.substitute_player_ratings :
           results.substitute_player_ratings[j].is_motm

(***************************************************************************)
(* Storage: CompiledResults.to_dict / from_dict and save_results /         *)
(* load_results.  A dict is a function from its keys; a dataclass is a     *)
(* record of its fields.  results.json holds the JSON object that json.dump *)
(* writes for the dict: its members are finite numbers, strings, booleans,  *)
(* null, lists and objects, each of which json.load reads back as the      *)
(* value that was written.                                                 *)
(***************************************************************************)
\* d.get(key, default)
Get(d, key, default) == IF key \in DOMAIN d THEN d[key] ELSE default

RatingStats_to_dict(s) == [mean |-> s.mean, std_dev |-> s.std_dev]

RatingStats_from_dict(d) == RatingStats(d["mean"], d["std_dev"])

PlayerRating_to_dict(p) ==
    [name |-> p.name, position |-> p.position, image_path |-> p.image_path,
     rating |-> RatingStats_to_dict(p.rating), is_starter |-> p.is_starter,
     goals |-> p.goals, assists |-> p.assists, own_goals |-> p.own_goals,
     is_motm |-> p.is_motm]

\* the event counts are not read back: every player gets the defaults
player_rating_from_dict_default_events(d) ==
    PlayerRating(d["name"], d["position"], Get(d, "image_path", "None"),
                 RatingStats_from_dict(d["rating"]), d["is_starter"],
                 Get(d, "is_motm", FALSE))

PlayerRating_from_dict(d) ==
    [name |-> d["name"], position |-> d["position"],
     image_path |-> Get(d, "image_path", "None"),
     rating |-> RatingStats_from_dict(d["rating"]), is_starter |-> d["is_starter"],
     goals |-> Get(d, "goals", 0), assists |-> Get(d, "assists", 0),
     own_goals |-> Get(d, "own_goals", 0), is_motm |-> Get(d, "is_motm", FALSE)]

MatchMetadata_to_dict(m) ==
    [opponent |-> m.opponent, competition |-> m.competition, matchday |-> m.matchday,
     date |-> m.date, venue |-> m.venue, home_score |-> m.home_score,
     away_score |-> m.away_score, is_tottenham_home |-> m.is_tottenham_home]

MatchMetadata_from_dict(d) ==
    [opponent |-> d["opponent"], competition |-> d["competition"],
     matchday |-> d["matchday"], date |-> d["date"], venue |-> d["venue"],
     home_score |-> d["home_score"], away_score |-> d["away_score"],
     is_tottenham_home |-> d["is_tottenham_home"]]

CoachRatings_to_dict(c) ==
    [name |-> c.name, starting_eleven |-> RatingStats_to_dict(c.starting_eleven),
     on_field_tactics |-> RatingStats_to_dict(c.on_field_tactics),
     substitutions |-> RatingStats_to_dict(c.substitutions)]

CoachRatings_from_dict(d) ==
    CoachRatings(d["name"], RatingStats_from_dict(d["starting_eleven"]),
                 RatingStats_from_dict(d["on_field_tactics"]),
                 RatingStats_from_dict(d["substitutions"]))

CompiledResults_to_dict(r) ==
    [match_id |-> r.match_id,
     metadata |-> MatchMetadata_to_dict(r.match_metadata),
     team_rating |-> RatingStats_to_dict(r.team_rating),
     opponent_rating |-> RatingStats_to_dict(r.opponent_rating),
     referee_rating |-> RatingStats_to_dict(r.referee_rating),
     coach_ratings |-> CoachRatings_to_dict(r.coach_ratings),
     overall_rating |-> r.overall_rating,
     starting_players |->
         [i \in DOMAIN r.starting_player_ratings |->
             PlayerRating_to_dict(r.starting_player_ratings[i])],
     substitute_players |->
         [i \in DOMAIN r.substitute_player_ratings |->
             PlayerRating_to_dict(r.substitute_player_ratings[i])],
     motm_winners |-> r.motm_winners,
     total_responses |-> r.total_responses,
     formation |-> r.formation]

CompiledResults_from_dict(d) ==
    LET starting_players == Get(d, "starting_players", <<>>)
        substitute_players == Get(d, "substitute_players", <<>>)
    IN  [match_id |-> d["match_id"],
         match_metadata |-> MatchMetadata_from_dict(d["metadata"]),
         team_rating |-> RatingStats_from_dict(d["team_rating"]),
         opponent_rating |-> RatingStats_from_dict(d["opponent_rating"]),
         referee_rating |-> RatingStats_from_dict(d["referee_rating"]),
         coach_ratings |-> CoachRatings_from_dict(d["coach_ratings"]),
         overall_rating |-> d["overall_rating"],
         starting_player_ratings |->
             [i \in DOMAIN starting_players |-> PlayerRating_from_dict(starting_players[i])],
         substitute_player_ratings |->
             [i \in DOMAIN substitute_players |->
                 PlayerRating_from_dict(substitute_players[i])],
         motm_winners |-> Get(d, "motm_winners", <<>>),
         total_responses |-> Get(d, "total_responses", 0),
         formation |-> Get(d, "formation", <<"4-3-3">>)]

\* json.dump(results.to_dict(), f): the document written to results.json
save_results(r) == CompiledResults_to_dict(r)

\* CompiledResults.from_dict(json.load(f))
load_results(document) == CompiledResults_from_dict(document)

(***************************************************************************)
(* SpecStore: a CompiledResults is converted to a dict and back, or saved  *)
(* to results.json and loaded again.                                       *)
(***************************************************************************)
surveyVars == <<values, stats, match_data, sections, responses, motm_winners>>

\* results compiled from no response or from one response sheet
CompiledOnce ==
    UNION { { compile_responses(rs, md) :
                rs \in SeqsUpTo(ResponseRows(build_survey_structure(md)), 1) } :
            md \in CompileMatchDatas }

\* (goals, assists, own_goals) of the first player of a list
EventCounts == { <<0, 0, 0>>, <<2, 1, 0>>, <<0, 0, 1>> }

WithEvents(players, ev) ==
    [i \in DOMAIN players |->
        IF i = 1
        THEN [players[i] EXCEPT !.goals = ev[1], !.assists = ev[2], !.own_goals = ev[3]]
        ELSE players[i]]

StoredResults ==
    { [r EXCEPT !.starting_player_ratings = WithEvents(@, ev),
                !.substitute_player_ratings = WithEvents(@, <<ev[3], ev[1], ev[2]>>)] :
        r \in CompiledOnce, ev \in EventCounts }

InitStore ==
    /\ PermIdle
    /\ pc = "store_input"
    /\ results \in StoredResults
    /\ StatsIdle
    /\ SurveyIdle
    /\ responses = <<>>
    /\ motm_winners = <<>>
    /\ StoreIdle
    /\ ArchiveIdle
    /\ RenderIdle
    /\ FetchIdle
    /\ CliIdle

\* CompiledResults.from_dict(results.to_dict())
RoundTripDict ==
    /\ pc = "store_input"
    /\ loaded' = CompiledResults_from_dict(CompiledResults_to_dict(results))
    /\ pc' = "restored"
    /\ UNCHANGED <<permVars, cliVars, surveyVars, results, results_file, archiveVars, renderVars, fetchVars>>

SaveResults ==
    /\ pc = "store_input"
    /\ results_file' = save_results(results)
    /\ pc' = "saved"
    /\ UNCHANGED <<permVars, cliVars, surveyVars, results, loaded, archiveVars, renderVars, fetchVars>>

LoadResults ==
    /\ pc = "saved"
    /\ loaded' = load_results(results_file)
    /\ pc' = "loaded"
    /\ UNCHANGED <<permVars, cliVars, surveyVars, results, results_file, archiveVars, renderVars, fetchVars>>

NextStore == RoundTripDict \/ SaveResults \/ LoadResults

SpecStore == InitStore /\ [][NextStore]_vars

\* C11: CompiledResults.from_dict(r.to_dict()) equals r field by field, and
\* load_results after save_results returns an equal record.
C11_RoundTrip ==
    pc \in {"restored", "loaded"} =>
        /\ loaded.match_id = results.match_id
        /\ loaded.match_metadata = results.match_metadata
        /\ loaded.team_rating = results.team_rating
        /\ loaded.opponent_rating = results.opponent_rating
        /\ loaded.referee_rating = results.referee_rating
        /\ loaded.coach_ratings = results.coach_ratings
        /\ loaded.overall_rating = results.overall_rating
        /\ loaded.starting_player_ratings = results.starting_player_ratings
        /\ loaded.substitute_player_ratings = results.substitute_player_ratings
        /\ loaded.motm_winners = results.motm_winners
        /\ loaded.total_responses = results.total_responses
        /\ loaded.formation = results.formation
        /\ loaded = results

\* a record with a scorer, a substitute and a winner was saved and loaded
C11_Witness ==
    /\ pc = "loaded"
    /\ Len(loaded.starting_player_ratings) = 2
    /\ loaded.starting_player_ratings[1].goals = 2
    /\ Len(loaded.substitute_player_ratings) = 1
    /\ loaded.substitute_player_ratings[1].assists = 2
    /\ loaded.motm_winners # <<>>
    /\ loaded.total_responses = 1

(***************************************************************************)
(* Archive: sort_matches and filter_matches on lists of index entries.     *)
(***************************************************************************)
MaxEntries == 3      \* longest list handed to sort_matches / filter_matches

Reversed(s) == [i \in DOMAIN s |-> s[Len(s) + 1 - i]]

\* list.sort by key m["date"]: ascending, equal keys keep their order
RECURSIVE InsertByDate(_, _)
InsertByDate(m, s) ==
    IF s = <<>> THEN <<m>>
    ELSE IF StrLess(m["date"], Head(s)["date"]) THEN <<m>> \o s
    ELSE <<Head(s)>> \o InsertByDate(m, Tail(s))

RECURSIVE StableSortByDate(_)
StableSortByDate(s) ==
    IF s = <<>> THEN <<>>
    ELSE InsertByDate(s[Len(s)], StableSortByDate(SubSeq(s, 1, Len(s) - 1)))

\* sorted(entries, key = date)[::-1]: the ascending result turned around
sort_matches_reversed_afterwards(entries_) == Reversed(StableSortByDate(entries_))

\* sorted(entries, key = date, reverse = True): the list is reversed, sorted
\* ascending and reversed again, which keeps equal keys in input order
sort_matches(entries_) == Reversed(StableSortByDate(Reversed(entries_)))

\* a keyword argument that is given and is not the empty string
Truthy(kwargs, key) == key \in DOMAIN kwargs /\ kwargs[key] # <<>>

\* the upper bound of the date range is applied as a strict one
filter_matches_date_to_exclusive(entries_, kwargs) ==
    SelectSeq(entries_, LAMBDA m :
        /\ ~(Truthy(kwargs, "opponent") /\ m["opponent"] # kwargs["opponent"])
        /\ ~(Truthy(kwargs, "competition") /\ m["competition"] # kwargs["competition"])
        /\ ~(Truthy(kwargs, "date_from") /\ StrLess(m["date"], kwargs["date_from"]))
        /\ ~(Truthy(kwargs, "date_to") /\ ~StrLess(m["date"], kwargs["date_to"])))

RECURSIVE filter_matches(_, _)
filter_matches(entries_, kwargs) ==
    IF entries_ = <<>> THEN <<>>
    ELSE LET m == Head(entries_)
             rest == filter_matches(Tail(entries_), kwargs)
         IN  IF Truthy(kwargs, "opponent") /\ m["opponent"] # kwargs["opponent"]
                 THEN rest
             ELSE IF Truthy(kwargs, "competition")
                     /\ m["competition"] # kwargs["competition"]
                 THEN rest
             ELSE IF Truthy(kwargs, "date_from") /\ StrLess(m["date"], kwargs["date_from"])
                 THEN rest
             ELSE IF Truthy(kwargs, "date_to") /\ StrLess(kwargs["date_to"], m["date"])
                 THEN rest
             ELSE <<m>> \o rest

(***************************************************************************)
(* SpecArchive: a list of at most MaxEntries index entries is sorted, or   *)
(* filtered by a combination of criteria.                                  *)
(***************************************************************************)
IsoDate(month, day) == <<"2", "0", "2", "4", "-">> \o month \o <<"-">> \o day

EarlyDate == IsoDate(<<"0", "9">>, <<"0", "1">>)

MidDate == IsoDate(<<"0", "9">>, <<"1", "5">>)

LateDate == IsoDate(<<"1", "0">>, <<"0", "1">>)

MatchEntry(match_id, opponent, competition, date) ==
    [match_id |-> match_id, opponent |-> opponent, competition |-> competition,
     matchday |-> <<"Week 3">>, date |-> date, venue |-> <<"Stadium">>,
     home_score |-> 2, away_score |-> 1, is_tottenham_home |-> TRUE]

\* two entries share the middle date
MatchEntries ==
    { MatchEntry(1, <<"Arsenal">>, <<"FA Cup">>, EarlyDate),
      MatchEntry(2, <<"Chelsea">>, <<"Premier League">>, MidDate),
      MatchEntry(3, <<"Arsenal">>, <<"Premier League">>, MidDate),
      MatchEntry(4, <<"Arsenal">>, <<"Premier League">>, LateDate) }

\* keyword arguments: a criterion is left out (None), empty, or a value
Kwargs(opponent, competition, date_from, date_to) ==
    LET given == [opponent |-> opponent, competition |-> competition,
                  date_from |-> date_from, date_to |-> date_to]
    IN  [k \in {key \in DOMAIN given : given[key] # <<"None">>} |-> given[k]]

FilterCriteria ==
    { Kwargs(o, c, f, t) :
        o \in {<<"None">>, <<>>, <<"Arsenal">>},
        c \in {<<"None">>, <<"Premier League">>},
        f \in {<<"None">>, MidDate},
        t \in {<<"None">>, EarlyDate, MidDate} }

InitArchive ==
    /\ PermIdle
    /\ pc = "archive_input"
    /\ entries \in SeqsUpTo(MatchEntries, MaxEntries)
    /\ criteria \in FilterCriteria
    /\ selected = <<>>
    /\ data_dir = <<>>
    /\ site = <<>>
    /\ StatsIdle
    /\ SurveyIdle
    /\ CompileIdle
    /\ StoreIdle
    /\ RenderIdle
    /\ FetchIdle
    /\ CliIdle

SortMatches ==
    /\ pc = "archive_input"
    /\ selected' = sort_matches(entries)
    /\ pc' = "sorted"
    /\ UNCHANGED <<permVars, cliVars, surveyVars, results, storeVars, data_dir, site, entries, criteria,
                   renderVars, fetchVars>>

FilterMatches ==
    /\ pc = "archive_input"
    /\ selected' = filter_matches(entries, criteria)
    /\ pc' = "filtered"
    /\ UNCHANGED <<permVars, cliVars, surveyVars, results, storeVars, data_dir, site, entries, criteria,
                   renderVars, fetchVars>>

NextArchive == SortMatches \/ FilterMatches

SpecArchive == InitArchive /\ [][NextArchive]_vars

\* a criterion counts as supplied when it is given and not empty
Supplied(key) == key \in DOMAIN criteria /\ criteria[key] # <<>>

Qualifies(m) ==
    /\ Supplied("opponent") => m.opponent = criteria["opponent"]
    /\ Supplied("competition") => m.competition = criteria["competition"]
    /\ Supplied("date_from") => ~LexBefore(m.date, criteria["date_from"])
    /\ Supplied("date_to") => ~LexBefore(criteria["date_to"], m.date)

\* C12: filter_matches returns exactly the input entries that satisfy every
\* supplied criterion (opponent equal, competition equal, date >= date_from,
\* date <= date_to, bounds inclusive): no qualifying entry is left out and no
\* other entry is let in.
C12_FilterIsExact ==
    pc = "filtered" =>
        /\ \A i \in DOMAIN entries : Qualifies(entries[i]) => entries[i] \in Range(selected)
        /\ \A j \in DOMAIN selected :
               selected[j] \in Range(entries) /\ Qualifies(selected[j])

\* all four criteria supplied; an entry on the upper bound is kept and one
\* entry is dropped
C12_Witness ==
    /\ pc = "filtered"
    /\ \A key \in {"opponent", "competition", "date_from", "date_to"} : Supplied(key)
    /\ criteria["date_to"] = criteria["date_from"]
    /\ selected # <<>>
    /\ Len(selected) < Len(entries)

\* the entries of a list that bear a date, in list order
DatedAt(s, date) == SelectSeq(s, LAMBDA m : m.date = date)

Occurrences(s, m) == Cardinality({i \in DOMAIN s : s[i] = m})

\* C13: sort_matches returns a permutation of its input (same length, same
\* entries) in non-increasing order of the date string, and entries with
\* equal dates keep their relative input order.
C13_SortIsStableDescending ==
    pc = "sorted" =>
        /\ Len(selected) = Len(entries)
        /\ \A m \in Range(entries) \cup Range(selected) :
               Occurrences(selected, m) = Occurrences(entries, m)
        /\ \A i, j \in DOMAIN selected :
               i < j => ~LexBefore(selected[i].date, selected[j].date)
        /\ \A m \in Range(entries) : DatedAt(selected, m.date) = DatedAt(entries, m.date)

\* the order changed, and two different entries of one date were sorted
C13_Witness ==
    /\ pc = "sorted"
    /\ selected # entries
    /\ \E i, j \in DOMAIN selected :
           i < j /\ selected[i].date = selected[j].date /\ selected[i] # selected[j]

(***************************************************************************)
(* Archive: build_site.  A path is a record: kind is "missing", "file" or  *)
(* "dir"; a directory maps the names of its children to their contents.    *)
(* A results.json is absent, or holds text that is no JSON document, or    *)
(* holds a JSON document.                                                  *)
(***************************************************************************)
MaxDirs == 3         \* most children of the data directory

DigitChar(d) == CHOOSE c \in Digits : Ord(c) = Ord("0") + d

\* str(n) for a non-negative int
RECURSIVE StrOfInt(_)
StrOfInt(n) ==
    IF n < 10 THEN <<DigitChar(n)>> ELSE StrOfInt(n \div 10) \o <<DigitChar(n % 10)>>

NoFile == [exists |-> FALSE]

GarbageFile == [exists |-> TRUE, json |-> FALSE]

JsonFile(document) == [exists |-> TRUE, json |-> TRUE, document |-> document]

\* keys that CompiledResults.from_dict reads with d[...]
RequiredKeys ==
    {"match_id", "metadata", "team_rating", "opponent_rating", "referee_rating",
     "coach_ratings", "overall_rating"}

\* load_results raises: json.load rejects the text, or from_dict misses a key
LoadRaises(file) == ~file.json \/ ~(RequiredKeys \subseteq DOMAIN file.document)

\* sorted(data_path.iterdir()): the children in ascending order of their names
RECURSIVE SortedIterdir(_)
SortedIterdir(names) ==
    IF names = {} THEN <<>>
    ELSE LET name == CHOOSE n \in names : TRUE
         IN  InsertSorted(name, SortedIterdir(names \ {name}))

IndexEntry(r) ==
    [match_id |-> r.match_id, opponent |-> r.match_metadata.opponent,
     competition |-> r.match_metadata.competition, matchday |-> r.match_metadata.matchday,
     date |-> r.match_metadata.date, venue |-> r.match_metadata.venue,
     home_score |-> r.match_metadata.home_score, away_score |-> r.match_metadata.away_score,
     is_tottenham_home |-> r.match_metadata.is_tottenham_home]

\* the child is passed over: not a directory, no results.json, or a
\* results.json that load_results raises on (the exception is caught)
Skipped(match_dir) ==
    \/ match_dir.kind # "dir"
    \/ ~match_dir.results_json.exists
    \/ LoadRaises(match_dir.results_json)

\* the rest of the loop body: matches is what lies under <output>/matches,
\* index_entries the list built so far
Mirrored(match_dir, acc) ==
    LET r == load_results(match_dir.results_json.document)
        match_id == StrOfInt(r.match_id)
        had_infographic ==
            match_id \in DOMAIN acc.matches /\ acc.matches[match_id].infographic
        dest == [results_json |-> match_dir.results_json,
                 infographic |-> match_dir.infographic \/ had_infographic]
    IN  [matches |-> [m \in DOMAIN acc.matches \cup {match_id} |->
                         IF m = match_id THEN dest ELSE acc.matches[m]],
         index_entries |-> Append(acc.index_entries, IndexEntry(r))]

\* a results.json that does not load discards what was indexed before it
mirror_match_failure_clears_index(match_dir, acc) ==
    IF match_dir.kind = "dir" /\ match_dir.results_json.exists
           /\ LoadRaises(match_dir.results_json)
        THEN [acc EXCEPT !.index_entries = <<>>]
    ELSE IF Skipped(match_dir) THEN acc
    ELSE Mirrored(match_dir, acc)

MirrorMatch(match_dir, acc) ==
    IF Skipped(match_dir) THEN acc ELSE Mirrored(match_dir, acc)

RECURSIVE MirrorMatches(_, _, _)
MirrorMatches(names, children, acc) ==
    IF names = <<>> THEN acc
    ELSE MirrorMatches(Tail(names), children, MirrorMatch(children[Head(names)], acc))

\* what build_site leaves in the output directory
Site(index_written, index, matches) ==
    [index_written |-> index_written, index |-> index, matches |-> matches]

EmptySite == Site(FALSE, <<>>, EmptyDict)

\* the loop over the children, the sort and the final _write_index
BuildIndex(data_path, out) ==
    LET acc == MirrorMatches(SortedIterdir(DOMAIN data_path.children), data_path.children,
                             [matches |-> out.matches, index_entries |-> <<>>])
    IN  Site(TRUE, sort_matches(acc.index_entries), acc.matches)

\* nothing is written when the input root is not a directory
build_site_no_index_without_root(data_path, out) ==
    IF data_path.kind # "dir" THEN out ELSE BuildIndex(data_path, out)

build_site(data_path, out) ==
    IF data_path.kind # "dir" THEN Site(TRUE, <<>>, out.matches)
    ELSE BuildIndex(data_path, out)

(***************************************************************************)
(* SpecSite: build_site runs on a data directory of at most MaxDirs        *)
(* children, or on an input root that is missing or is a regular file.     *)
(***************************************************************************)
ArchivedMatch ==
    MatchData(TOTTENHAM, <<"Newcastle">>, <<"Ange">>, Lineup(SubSeq(Squad, 1, 2)), <<>>, TRUE)

\* the results.json of a match: compiled results under an id and a date
ArchivedResults(match_id, date) ==
    [compile_responses(<<>>, ArchivedMatch) EXCEPT
        !.match_id = match_id, !.match_metadata.date = date]

RegularFile == [kind |-> "file"]

MatchDir(results_json, infographic) ==
    [kind |-> "dir", results_json |-> results_json, infographic |-> infographic]

\* a stray file; a directory without results.json; with unreadable text;
\* with a JSON object that lacks the required keys; three that load, two of
\* them on one date
ChildContents ==
    { RegularFile,
      MatchDir(NoFile, TRUE),
      MatchDir(GarbageFile, FALSE),
      MatchDir(JsonFile([match_id |-> 5]), FALSE),
      MatchDir(JsonFile(save_results(ArchivedResults(7, EarlyDate))), TRUE),
      MatchDir(JsonFile(save_results(ArchivedResults(8, LateDate))), FALSE),
      MatchDir(JsonFile(save_results(ArchivedResults(9, LateDate))), FALSE) }

ChildNames == {StrOfInt(i) : i \in 1..MaxDirs}

Directory(children) == [kind |-> "dir", children |-> children]

DataDirs ==
    { [kind |-> "missing"], RegularFile }
    \cup UNION { { Directory(children) : children \in [names -> ChildContents] } :
                 names \in SUBSET ChildNames }

InitSite ==
    /\ PermIdle
    /\ pc = "site_input"
    /\ data_dir \in DataDirs
    /\ site = EmptySite
    /\ entries = <<>>
    /\ criteria = <<>>
    /\ selected = <<>>
    /\ StatsIdle
    /\ SurveyIdle
    /\ CompileIdle
    /\ StoreIdle
    /\ RenderIdle
    /\ FetchIdle
    /\ CliIdle

BuildSite ==
    /\ pc = "site_input"
    /\ site' = build_site(data_dir, site)
    /\ pc' = "site_built"
    /\ UNCHANGED <<permVars, cliVars, surveyVars, results, storeVars, data_dir, entries, criteria, selected,
                   renderVars, fetchVars>>

NextSite == BuildSite

SpecSite == InitSite /\ [][NextSite]_vars

\* the children whose results.json is there and loads
LoadedDirs ==
    { name \in DOMAIN data_dir.children :
        LET child == data_dir.children[name]
        IN  /\ child.kind = "dir"
            /\ child.results_json.exists
            /\ child.results_json.json
            /\ RequiredKeys \subseteq DOMAIN child.results_json.document }

\* the index entry describes the document of a child
Describes(entry, name) ==
    LET document == data_dir.children[name].results_json.document
    IN  /\ entry.match_id = document.match_id
        /\ entry.date = document.metadata.date
        /\ entry.opponent = document.metadata.opponent
        /\ entry.competition = document.metadata.competition

\* C14: build_site never aborts because of a single match: a subdirectory
\* without results file, or whose results file fails to load, is skipped and
\* the next one is processed; the index written at the end has exactly one
\* entry for each subdirectory that loaded, none for a skipped one, and is
\* sorted by date descending.
C14_SkipAndIndexTheRest ==
    (pc = "site_built" /\ data_dir.kind = "dir") =>
        /\ raised = "None"
        /\ site.index_written
        /\ \E f \in [DOMAIN site.index -> LoadedDirs] :
               /\ \A name \in LoadedDirs : \E i \in DOMAIN site.index : f[i] = name
               /\ \A i, j \in DOMAIN site.index : f[i] = f[j] => i = j
               /\ \A i \in DOMAIN site.index : Describes(site.index[i], f[i])
        /\ \A i, j \in DOMAIN site.index :
               i < j => ~LexBefore(site.index[i].date, site.index[j].date)

\* a directory that loads, then one that fails to load, then a later match
\* that loads: the index lists the later match first
C14_Witness ==
    /\ pc = "site_built"
    /\ data_dir.kind = "dir"
    /\ DOMAIN data_dir.children = {<<"1">>, <<"2">>, <<"3">>}
    /\ data_dir.children[<<"1">>] =
           MatchDir(JsonFile(save_results(ArchivedResults(7, EarlyDate))), TRUE)
    /\ data_dir.children[<<"2">>] = MatchDir(GarbageFile, FALSE)
    /\ data_dir.children[<<"3">>] =
           MatchDir(JsonFile(save_results(ArchivedResults(8, LateDate))), FALSE)
    /\ Len(site.index) = 2
    /\ site.index[1].match_id = 8

\* C15: when the input root does not exist or is not a directory, build_site
\* returns normally, the index it writes is an empty list and no match is
\* mirrored.
C15_MissingRootGivesEmptyIndex ==
    (pc = "site_built" /\ data_dir.kind # "dir") =>
        /\ raised = "None"
        /\ site.index_written
        /\ site.index = <<>>
        /\ DOMAIN site.matches = {}

C15_Witness ==
    /\ pc = "site_built"
    /\ data_dir.kind = "missing"
    /\ site.index_written

(***************************************************************************)
(* formations.py and infographic.py.  An image is a record of its size and *)
(* of where its pixels come from; a call that may raise returns a record   *)
(* [raised, value], raised = "None" when it returned.  The file system     *)
(* maps the paths of the regular files that exist to what Image.open finds *)
(* in them: "image" or "garbage".                                          *)
(***************************************************************************)
WIDTH == 1920

HEIGHT == 1080

\* one row of a formation got a player more
formation_layouts_extra_midfielder ==
    (<<"4-3-3">> :> << <<"FW", 3>>, <<"MF", 3>>, <<"DF", 4>>, <<"GK", 1>> >>)
    @@ (<<"4-4-2">> :> << <<"FW", 2>>, <<"MF", 4>>, <<"DF", 4>>, <<"GK", 1>> >>)
    @@ (<<"3-5-2">> :> << <<"FW", 2>>, <<"MF", 5>>, <<"DF", 3>>, <<"GK", 1>> >>)
    @@ (<<"4-2-3-1">> :>
            << <<"FW", 1>>, <<"AM", 3>>, <<"DM", 2>>, <<"DF", 4>>, <<"GK", 1>> >>)
    @@ (<<"3-4-3">> :> << <<"FW", 3>>, <<"MF", 4>>, <<"DF", 3>>, <<"GK", 1>> >>)
    @@ (<<"5-3-2">> :> << <<"FW", 2>>, <<"MF", 3>>, <<"DF", 5>>, <<"GK", 1>> >>)
    @@ (<<"4-1-4-1">> :>
            << <<"FW", 1>>, <<"MF", 5>>, <<"DM", 1>>, <<"DF", 4>>, <<"GK", 1>> >>)

FORMATION_LAYOUTS ==
    (<<"4-3-3">> :> << <<"FW", 3>>, <<"MF", 3>>, <<"DF", 4>>, <<"GK", 1>> >>)
    @@ (<<"4-4-2">> :> << <<"FW", 2>>, <<"MF", 4>>, <<"DF", 4>>, <<"GK", 1>> >>)
    @@ (<<"3-5-2">> :> << <<"FW", 2>>, <<"MF", 5>>, <<"DF", 3>>, <<"GK", 1>> >>)
    @@ (<<"4-2-3-1">> :>
            << <<"FW", 1>>, <<"AM", 3>>, <<"DM", 2>>, <<"DF", 4>>, <<"GK", 1>> >>)
    @@ (<<"3-4-3">> :> << <<"FW", 3>>, <<"MF", 4>>, <<"DF", 3>>, <<"GK", 1>> >>)
    @@ (<<"5-3-2">> :> << <<"FW", 2>>, <<"MF", 3>>, <<"DF", 5>>, <<"GK", 1>> >>)
    @@ (<<"4-1-4-1">> :>
            << <<"FW", 1>>, <<"MF", 4>>, <<"DM", 1>>, <<"DF", 4>>, <<"GK", 1>> >>)

Returned(value) == [raised |-> "None", value |-> value]

Raised(exception) == [raised |-> exception]

Image(width, height, source) == [width |-> width, height |-> height, source |-> source]

\* os.path.isfile(path)
isfile(fs, path) == path \in DOMAIN fs

\* the truth value of a path argument: neither None nor ""
PathGiven(path) == path # "None" /\ path # <<>>

\* width and height of the pictures found in files
PictureSize == <<300, 200>>

\* Image.open(path).convert("RGBA")
ImageOpen(fs, path) ==
    IF isfile(fs, path) /\ fs[path] = "image"
        THEN Returned(Image(PictureSize[1], PictureSize[2], path))
    ELSE Raised("UnidentifiedImageError")

\* img.resize((width, height), Image.LANCZOS)
Resize(img, width, height) == Image(width, height, img.source)

\* Image.new("RGBA", (size, size)) with an ellipse drawn on it
GrayCircle(size) == Image(size, size, <<"gray circle">>)

PLACEHOLDER_PATH == <<"assets/placeholder.png">>

\* the failure of Image.open leaves the function
load_player_image_open_unguarded(image_path, size, fs) ==
    LET target == IF PathGiven(image_path) /\ isfile(fs, image_path) THEN image_path
                  ELSE PLACEHOLDER_PATH
    IN  IF ~isfile(fs, target) THEN Returned(GrayCircle(size))
        ELSE IF ImageOpen(fs, target).raised # "None" THEN ImageOpen(fs, target)
        ELSE Returned(Resize(ImageOpen(fs, target).value, size, size))

_load_player_image(image_path, size, fs) ==
    LET target == IF PathGiven(image_path) /\ isfile(fs, image_path) THEN image_path
                  ELSE IF isfile(fs, PLACEHOLDER_PATH) THEN PLACEHOLDER_PATH
                  ELSE "None"
    IN  IF target = "None" THEN Returned(GrayCircle(size))
        ELSE LET opened == ImageOpen(fs, target)
             IN  IF opened.raised # "None" THEN Returned(GrayCircle(size))
                 ELSE Returned(Resize(opened.value, size, size))

\* the layout of the formation; an unknown formation gives one flat row
Layout(r) ==
    IF r.formation \in DOMAIN FORMATION_LAYOUTS THEN FORMATION_LAYOUTS[r.formation]
    ELSE << <<"PL", Len(r.starting_player_ratings)>> >>

\* players[start : stop] for 0 <= start <= stop
Slice(players, start, stop) ==
    SubSeq(players, start + 1, IF stop < Len(players) THEN stop ELSE Len(players))

\* rows.append(players[idx : idx + count]); idx += count
RECURSIVE DistributeRows(_, _, _)
DistributeRows(players, layout, idx) ==
    IF layout = <<>> THEN <<>>
    ELSE <<Slice(players, idx, idx + Head(layout)[2])>>
             \o DistributeRows(players, Tail(layout), idx + Head(layout)[2])

RECURSIVE Flatten(_)
Flatten(seqs) == IF seqs = <<>> THEN <<>> ELSE Head(seqs) \o Flatten(Tail(seqs))

LEFT_W == (WIDTH * 22) \div 100

\* the failure of Image.open on the photo leaves the sidebar renderer
photo_block_open_unguarded(photo_path, fs) ==
    IF PathGiven(photo_path) /\ isfile(fs, photo_path)
        THEN IF ImageOpen(fs, photo_path).raised # "None" THEN ImageOpen(fs, photo_path)
             ELSE Returned(<<ImageOpen(fs, photo_path).value>>)
    ELSE Returned(<<>>)

\* the photo block of _draw_left_sidebar: the pictures it pastes
PhotoBlock(photo_path, fs) ==
    IF PathGiven(photo_path) /\ isfile(fs, photo_path)
        THEN LET opened == ImageOpen(fs, photo_path)
             IN  IF opened.raised # "None" THEN Returned(<<>>)
                 ELSE LET photo_w == LEFT_W - 30
                          photo_h == (opened.value.height * photo_w) \div opened.value.width
                      IN  Returned(<<Resize(opened.value, photo_w,
                                            IF photo_h < 160 THEN photo_h ELSE 160)>>)
    ELSE Returned(<<>>)

\* _draw_player_card for each player: the image each card pastes
PlayerCards(players, img_size, fs) ==
    [i \in DOMAIN players |-> _load_player_image(players[i].image_path, img_size, fs)]

\* the exception of the first call that raised, "None" when all returned
FirstRaised(calls) ==
    LET failed == {i \in DOMAIN calls : calls[i].raised # "None"}
    IN  IF failed = {} THEN "None"
        ELSE calls[CHOOSE i \in failed : \A j \in failed : i <= j].raised

\* the canvas is created WIDTH by HEIGHT, the three columns are drawn on it
\* and it is saved as PNG; pasting does not change its size
generate_infographic(r, quote, photo_path, fs) ==
    LET photo == PhotoBlock(photo_path, fs)
        starters == Flatten(DistributeRows(r.starting_player_ratings, Layout(r), 0))
        cards == PlayerCards(starters, 70, fs)
                     \o PlayerCards(r.substitute_player_ratings, 60, fs)
        failure == FirstRaised(<<photo>> \o cards)
    IN  IF failure # "None" THEN Raised(failure)
        ELSE Returned([width |-> WIDTH, height |-> HEIGHT, format |-> "PNG",
                       quote |-> quote # <<>>,
                       pasted |-> photo.value \o [i \in DOMAIN cards |-> cards[i].value]])

(***************************************************************************)
(* SpecRender: with some of the image files present, readable or not,      *)
(* _load_player_image is called for a path and a size, and                 *)
(* generate_infographic for a CompiledResults, a quote and a photo path.   *)
(***************************************************************************)
PhotoPath == <<"photo.jpg">>

PlayerImagePath == <<"images/son.png">>

\* a path no file system of the model holds
NoSuchPath == <<"images/nobody.png">>

FileSystems ==
    UNION { [paths -> {"image", "garbage"}] :
            paths \in SUBSET {PhotoPath, PlayerImagePath, PLACEHOLDER_PATH} }

\* the image reference of a player: null, a path without file, a file
ImageReference(k) ==
    CASE k = 1 -> "None" [] k = 2 -> NoSuchPath [] k = 3 -> PlayerImagePath

RenderArgs(k, size, quote, photo_path) ==
    [image_path |-> ImageReference(k), size |-> size, quote |-> quote,
     photo_path |-> photo_path]

RenderedPlayers(names, image_paths, is_starter) ==
    [i \in DOMAIN names |->
        PlayerRating(names[i], "MF", image_paths[((i - 1) % Len(image_paths)) + 1],
                     ZeroStats, is_starter, FALSE)]

\* no starter; eleven without image reference; eleven whose references
\* alternate between a file and a path that does not exist; twelve
RenderedSquad(k) ==
    CASE k = 1 -> <<>>
      [] k = 2 -> RenderedPlayers(Squad, <<"None">>, TRUE)
      [] k = 3 -> RenderedPlayers(Squad, <<PlayerImagePath, NoSuchPath>>, TRUE)
      [] k = 4 -> RenderedPlayers(Append(Squad, <<"L">>), <<"None">>, TRUE)

\* the supported formations and one that is not in the table
RenderedFormations == DOMAIN FORMATION_LAYOUTS \cup { <<"4-5-1">> }

RenderedResults(formation, squad) ==
    [compile_responses(<<>>, ArchivedMatch) EXCEPT
        !.formation = formation,
        !.starting_player_ratings = squad,
        !.substitute_player_ratings =
            IF squad = <<>> THEN <<>>
            ELSE RenderedPlayers(<<<<"S">>>>, <<squad[2].image_path>>, FALSE)]

InitRender ==
    /\ PermIdle
    /\ pc = "render_input"
    /\ \E formation \in RenderedFormations, k \in 1..4 :
           results = RenderedResults(formation, RenderedSquad(k))
    /\ files \in FileSystems
    /\ \E k \in 1..3, size \in {60, 80}, quote \in {<<>>, <<"Quote">>},
          photo_path \in {<<>>, PhotoPath} :
           render_args = RenderArgs(k, size, quote, photo_path)
    /\ rows = <<>>
    /\ image = <<>>
    /\ output = <<>>
    /\ StatsIdle
    /\ SurveyIdle
    /\ responses = <<>>
    /\ motm_winners = <<>>
    /\ StoreIdle
    /\ ArchiveIdle
    /\ FetchIdle
    /\ CliIdle

LoadPlayerImage ==
    /\ pc = "render_input"
    /\ LET call == _load_player_image(render_args.image_path, render_args.size, files)
       IN  /\ raised' = call.raised
           /\ image' = IF call.raised = "None" THEN call.value ELSE image
    /\ pc' = "image_loaded"
    /\ UNCHANGED <<permVars, cliVars, surveyVars, results, storeVars, archiveVars, files, render_args, rows,
                   output, espn_data, missing>>

GenerateInfographic ==
    /\ pc = "render_input"
    /\ LET call == generate_infographic(results, render_args.quote,
                                        render_args.photo_path, files)
       IN  /\ raised' = call.raised
           /\ output' = IF call.raised = "None" THEN call.value ELSE output
    /\ rows' = DistributeRows(results.starting_player_ratings, Layout(results), 0)
    /\ pc' = "rendered"
    /\ UNCHANGED <<permVars, cliVars, surveyVars, results, storeVars, archiveVars, files, render_args, image,
                   espn_data, missing>>

NextRender == LoadPlayerImage \/ GenerateInfographic

SpecRender == InitRender /\ [][NextRender]_vars

RowCounts(layout) == [i \in DOMAIN layout |-> layout[i][2]]

\* C16: for every formation key of FORMATION_LAYOUTS the player counts of
\* its rows sum to exactly 11; so does the layout a render of a supported
\* formation uses.
C16_LayoutsSumToEleven ==
    /\ \A formation \in DOMAIN FORMATION_LAYOUTS :
           SumSeq(RowCounts(FORMATION_LAYOUTS[formation])) = 11
    /\ (pc = "rendered" /\ results.formation \in DOMAIN FORMATION_LAYOUTS) =>
           SumSeq(RowCounts(Layout(results))) = 11

\* eleven starters were laid out in the five rows of 4-1-4-1
C16_Witness ==
    /\ pc = "rendered"
    /\ results.formation = <<"4-1-4-1">>
    /\ Len(rows) = 5
    /\ Len(Flatten(rows)) = 11

\* C17: for any CompiledResults, any quote and any photo path (empty or
\* nonexistent included), generate_infographic completes without raising and
\* writes an image of exactly 1920 by 1080 pixels, also when every player
\* image reference is null or points to a file that does not exist.
C17_AlwaysRendersFullSize ==
    pc = "rendered" =>
        /\ raised = "None"
        /\ output.width = 1920
        /\ output.height = 1080

\* no player image exists and the photo cannot be read, yet a picture was
\* written; nothing but generated circles was pasted
C17_Witness ==
    /\ pc = "rendered"
    /\ DOMAIN files = {PhotoPath}
    /\ files[PhotoPath] = "garbage"
    /\ render_args.photo_path = PhotoPath
    /\ Len(results.starting_player_ratings) = 11
    /\ PlayerImagePath = results.starting_player_ratings[1].image_path
    /\ Len(output.pasted) = 12
    /\ \A i \in DOMAIN output.pasted : output.pasted[i].source = <<"gray circle">>

\* C18: _load_player_image never propagates a failure and returns an image
\* of the requested size: a null or nonexistent path falls back to the
\* placeholder file when it exists and to a generated gray circle otherwise;
\* a file (player image or placeholder) that exists but fails to open falls
\* back to the gray circle.
C18_ImageFallbacks ==
    pc = "image_loaded" =>
        LET path == render_args.image_path
            found == PathGiven(path) /\ path \in DOMAIN files
            target == IF found THEN path ELSE PLACEHOLDER_PATH
        IN  /\ raised = "None"
            /\ image.width = render_args.size
            /\ image.height = render_args.size
            /\ (target \in DOMAIN files /\ files[target] = "image") =>
                   image.source = target
            /\ (~found /\ PLACEHOLDER_PATH \notin DOMAIN files) =>
                   image.source = <<"gray circle">>
            /\ (target \in DOMAIN files /\ files[target] = "garbage") =>
                   image.source = <<"gray circle">>

\* the player's file is there but unreadable: a gray circle, although the
\* placeholder could have been read
C18_Witness ==
    /\ pc = "image_loaded"
    /\ PlayerImagePath = render_args.image_path
    /\ PlayerImagePath \in DOMAIN files
    /\ files[PlayerImagePath] = "garbage"
    /\ PLACEHOLDER_PATH \in DOMAIN files
    /\ files[PLACEHOLDER_PATH] = "image"
    /\ image = GrayCircle(render_args.size)

(***************************************************************************)
(* match_data.py: _parse_espn_response.  The ESPN summary is a JSON        *)
(* object: a function from its keys; d.get(key, default) on a missing key  *)
(* gives the default.  Team ids, names, scores and clock values are str;   *)
(* position abbreviations and position codes are written as plain strings. *)
(***************************************************************************)
TOTTENHAM_ESPN_ID == <<"3", "6", "7">>

_POSITION_MAP ==
    [abbrev \in {"G", "D", "CD", "CD-L", "CD-R", "LB", "RB", "DM", "CM", "AM", "LM",
                 "RM", "LW", "RW", "LF", "RF", "F", "CF", "SS"} |->
        CASE abbrev = "G" -> "GK"
          [] abbrev \in {"D", "CD", "CD-L", "CD-R"} -> "CB"
          [] abbrev \in {"LF"} -> "LW"
          [] abbrev \in {"RF"} -> "RW"
          [] abbrev \in {"F", "CF", "SS"} -> "FW"
          [] OTHER -> abbrev]

\* position is the dict under "position"; a missing abbreviation is None
_short_position(position) ==
    IF "abbreviation" \notin DOMAIN position THEN "MF"
    ELSE IF position["abbreviation"] \in DOMAIN _POSITION_MAP
        THEN _POSITION_MAP[position["abbreviation"]]
    ELSE "MF"

\* clock_str.replace("'", "")
WithoutQuotes(s) == SelectSeq(s, LAMBDA c : c # "'")

\* the text before the first "+" and the text between the first and the
\* second "+" (or the end): parts[0] and parts[1] of clean.split("+")
SplitPlus(s) ==
    LET plus == {i \in DOMAIN s : s[i] = "+"}
        first == CHOOSE i \in plus : \A j \in plus : i <= j
        later == {i \in plus : i > first}
        second == IF later = {} THEN Len(s) + 1
                  ELSE CHOOSE i \in later : \A j \in later : i <= j
    IN  <<SubSeq(s, 1, first - 1), SubSeq(s, first + 1, second - 1)>>

_parse_minute(clock_str) ==
    LET clean == Strip(WithoutQuotes(clock_str))
    IN  IF \E i \in DOMAIN clean : clean[i] = "+"
            THEN LET parts == SplitPlus(clean)
                 IN  IF ParseInt(parts[1]).ok /\ ParseInt(parts[2]).ok
                         THEN ParseInt(parts[1]).value + ParseInt(parts[2]).value
                     ELSE 0
        ELSE IF ParseInt(clean).ok THEN ParseInt(clean).value
        ELSE 0

\* next((c for c in competitors if c.get("homeAway") == side), {})
Competitor(competitors, side) ==
    LET at == {i \in DOMAIN competitors : Get(competitors[i], "homeAway", "None") = side}
    IN  IF at = {} THEN EmptyDict
        ELSE competitors[CHOOSE i \in at : \A j \in at : i <= j]

\* int(comp.get("score", 0)): [ok, value], ok = FALSE stands for ValueError
Score(comp) ==
    IF "score" \in DOMAIN comp THEN ParseInt(comp["score"]) ELSE [ok |-> TRUE, value |-> 0]

\* the roster of the first entry of data["rosters"] that is Tottenham's
SpursRoster(data) ==
    LET rosters == Get(data, "rosters", <<>>)
        own == {i \in DOMAIN rosters :
                   Get(Get(rosters[i], "team", EmptyDict), "id", <<>>) = TOTTENHAM_ESPN_ID}
    IN  IF own = {} THEN <<>>
        ELSE Get(rosters[CHOOSE i \in own : \A j \in own : i <= j], "roster", <<>>)

\* PlayerInfo(name=..., position=..., shirt_number=int(jersey) if jersey else None)
StartingPlayer(p) ==
    [PlayerInfo(Get(Get(p, "athlete", EmptyDict), "displayName", <<>>),
                _short_position(Get(p, "position", EmptyDict)))
        EXCEPT !.shirt_number =
            IF Get(p, "jersey", <<>>) # <<>> THEN ParseInt(p["jersey"]).value ELSE "None"]

StartingPlayers(roster) ==
    LET starters == SelectSeq(roster, LAMBDA p : Get(p, "starter", FALSE))
    IN  [i \in DOMAIN starters |-> StartingPlayer(starters[i])]

\* a key event that records a Tottenham substitution with both players
IsSpursSubstitution(ev) ==
    /\ Get(Get(ev, "type", EmptyDict), "text", <<>>) = <<"Substitution">>
    /\ Get(Get(ev, "team", EmptyDict), "id", <<>>) = TOTTENHAM_ESPN_ID
    /\ Len(Get(ev, "participants", <<>>)) >= 2

Substitutions(data) ==
    LET events == SelectSeq(Get(data, "keyEvents", <<>>), IsSpursSubstitution)
    IN  [i \in DOMAIN events |->
            SubstitutionEvent(
                Get(Get(events[i]["participants"][1], "athlete", EmptyDict),
                    "displayName", <<>>),
                Get(Get(events[i]["participants"][2], "athlete", EmptyDict),
                    "displayName", <<>>),
                _parse_minute(Get(Get(events[i], "clock", EmptyDict),
                                  "displayValue", <<"0">>)))]

\* the formation of the first boxscore form entry that is Tottenham's
Formation(data) ==
    LET form == Get(Get(data, "boxscore", EmptyDict), "form", <<>>)
        own == {i \in DOMAIN form :
                   Get(Get(form[i], "team", EmptyDict), "id", <<>>) = TOTTENHAM_ESPN_ID}
    IN  IF own = {} THEN <<>>
        ELSE Get(form[CHOOSE i \in own : \A j \in own : i <= j], "formation", <<>>)

\* Tottenham is not looked for: an event without it is parsed as an away match
tottenham_side_never_rejects(home_team_id, away_team_id) ==
    IF home_team_id = TOTTENHAM_ESPN_ID THEN "home" ELSE "away"

\* the if / elif / else on the two team ids
TottenhamSide(home_team_id, away_team_id) ==
    IF home_team_id = TOTTENHAM_ESPN_ID THEN "home"
    ELSE IF away_team_id = TOTTENHAM_ESPN_ID THEN "away"
    ELSE "neither"

_parse_espn_response(data, event_id) ==
    LET header == Get(data, "header", EmptyDict)
        competitions == Get(header, "competitions", <<>>)
    IN  IF competitions = <<>> THEN Raised("ValueError")
        ELSE
        LET comp == competitions[1]
            competitors == Get(comp, "competitors", <<>>)
            home_comp == Competitor(competitors, "home")
            away_comp == Competitor(competitors, "away")
            home_team == Get(home_comp, "team", EmptyDict)
            away_team == Get(away_comp, "team", EmptyDict)
            side == TottenhamSide(Get(home_team, "id", <<>>), Get(away_team, "id", <<>>))
            season == Get(header, "season", EmptyDict)
            utc_date == Get(comp, "date", <<>>)
            roster == SpursRoster(data)
            jerseys_parse ==
                \A i \in DOMAIN roster :
                    (Get(roster[i], "starter", FALSE) /\ Get(roster[i], "jersey", <<>>) # <<>>)
                        => ParseInt(roster[i]["jersey"]).ok
        IN  IF side = "neither" THEN Raised("ValueError")
            ELSE IF ~Score(home_comp).ok \/ ~Score(away_comp).ok \/ ~jerseys_parse
                THEN Raised("ValueError")
            ELSE Returned(
                [match_id |-> event_id,
                 home_team |-> Get(home_team, "displayName", <<>>),
                 away_team |-> Get(away_team, "displayName", <<>>),
                 competition |-> Get(Get(header, "league", EmptyDict), "name", <<>>),
                 matchday |-> IF season = EmptyDict THEN <<>>
                              ELSE <<"Matchday ">> \o
                                   (IF "type" \in DOMAIN season THEN StrOfInt(season["type"])
                                    ELSE <<>>),
                 date |-> SubSeq(utc_date, 1, IF Len(utc_date) < 10 THEN Len(utc_date) ELSE 10),
                 venue |-> Get(Get(Get(data, "gameInfo", EmptyDict), "venue", EmptyDict),
                               "fullName", <<>>),
                 home_score |-> Score(home_comp).value,
                 away_score |-> Score(away_comp).value,
                 formation |-> Formation(data),
                 coach |-> <<>>,
                 starting_players |-> StartingPlayers(roster),
                 substitutions |-> Substitutions(data),
                 is_tottenham_home |-> (side = "home")])

(***************************************************************************)
(* SpecFetch: an ESPN summary is parsed.                                   *)
(***************************************************************************)
Team(id, displayName) == [id |-> id, displayName |-> displayName]

SpursTeam == Team(TOTTENHAM_ESPN_ID, TOTTENHAM)

OpponentTeam == Team(<<"3", "6", "0">>, <<"Newcastle">>)

ThirdTeam == Team(<<"3", "5", "9">>, <<"Arsenal">>)

CompetitorEntry(homeAway, team, score) ==
    [homeAway |-> homeAway, team |-> team, score |-> score]

\* Tottenham at home; away; away and listed first; not playing; alone as
\* home or as away side (the other competitor is not listed); listed after a
\* competitor without side; no competitor at all
CompetitorLists ==
    { << CompetitorEntry("home", SpursTeam, <<"2">>),
         CompetitorEntry("away", OpponentTeam, <<"0">>) >>,
      << CompetitorEntry("home", OpponentTeam, <<"1">>),
         CompetitorEntry("away", SpursTeam, <<"3">>) >>,
      << CompetitorEntry("away", SpursTeam, <<"3">>),
         CompetitorEntry("home", OpponentTeam, <<"1">>) >>,
      << CompetitorEntry("home", OpponentTeam, <<"1">>),
         CompetitorEntry("away", ThirdTeam, <<"1">>) >>,
      << CompetitorEntry("home", SpursTeam, <<"2">>) >>,
      << CompetitorEntry("away", SpursTeam, <<"2">>) >>,
      << [team |-> OpponentTeam], [homeAway |-> "away", team |-> SpursTeam] >>,
      << >> }

RosterEntry(i, starter) ==
    [starter |-> starter, jersey |-> StrOfInt(i), athlete |-> [displayName |-> Squad[i]],
     position |-> IF i = 1 THEN [abbreviation |-> "G"]
                  ELSE IF i = 2 THEN [abbreviation |-> "CD"]
                  ELSE IF i = 3 THEN [abbreviation |-> "LF"]
                  ELSE IF i = 4 THEN [abbreviation |-> "XX"]
                  ELSE [name |-> "Midfielder"]]

\* the first n players of the squad start, the next one is on the bench
SpursRosterOf(n) ==
    [i \in 1..(IF n < ELEVEN THEN n + 1 ELSE ELEVEN) |-> RosterEntry(i, i <= n)]

OpponentRoster == << [starter |-> TRUE, athlete |-> [displayName |-> <<"Z">>]] >>

\* the team entries of "rosters", Tottenham's last
Rosters(n) ==
    << [team |-> OpponentTeam, roster |-> OpponentRoster],
       [team |-> SpursTeam, roster |-> SpursRosterOf(n)] >>

Participant(displayName) == [athlete |-> [displayName |-> displayName]]

KeyEvent(text, team, participants, displayValue) ==
    [type |-> [text |-> text], team |-> team, participants |-> participants,
     clock |-> [displayValue |-> displayValue]]

\* a goal, a substitution of the opponent, one with a single participant, and
\* two of Tottenham, the second in stoppage time
KeyEvents ==
    << KeyEvent(<<"Goal">>, SpursTeam, <<Participant(<<"A">>)>>, <<"1", "2", "'">>),
       KeyEvent(<<"Substitution">>, OpponentTeam,
                <<Participant(<<"Z">>), Participant(<<"Z">>)>>, <<"4", "6", "'">>),
       KeyEvent(<<"Substitution">>, SpursTeam, <<Participant(<<"T">>)>>, <<"5", "0", "'">>),
       KeyEvent(<<"Substitution">>, SpursTeam,
                <<Participant(<<"S">>), Participant(<<"A">>)>>, <<"6", "0", "'">>),
       KeyEvent(<<"Substitution">>, SpursTeam,
                <<Participant(<<"T">>), Participant(<<"B">>)>>,
                <<"9", "0", "'", "+", "2", "'">>) >>

KickOff == IsoDate(<<"0", "9">>, <<"0", "1">>) \o <<"T", "1", "2", ":", "3", "0", "Z">>

\* a summary with all its parts
FullSummary(competitors, n, events) ==
    [header |-> [competitions |-> << [date |-> KickOff, competitors |-> competitors] >>,
                 league |-> [name |-> <<"Premier League">>],
                 season |-> [type |-> 25]],
     gameInfo |-> [venue |-> [fullName |-> <<"Stadium">>]],
     rosters |-> Rosters(n),
     keyEvents |-> events,
     boxscore |-> [form |-> << [team |-> OpponentTeam, formation |-> <<"4-4-2">>],
                               [team |-> SpursTeam, formation |-> <<"4-3-3">>] >>]]

\* a summary with the competitors and the rosters only
BareSummary(competitors, n) ==
    [header |-> [competitions |-> << [competitors |-> competitors] >>],
     rosters |-> Rosters(n)]

\* the numbers of starters in the Tottenham roster
StarterCounts == {0, 10, ELEVEN}

EspnSummaries ==
    { [header |-> [competitions |-> <<>>]], [rosters |-> Rosters(ELEVEN)] }
    \cup { FullSummary(competitors, n, events) :
             competitors \in CompetitorLists, n \in StarterCounts,
             events \in {<<>>, KeyEvents} }
    \cup { BareSummary(competitors, n) :
             competitors \in CompetitorLists, n \in StarterCounts }

EventId == 401

InitFetch ==
    /\ PermIdle
    /\ pc = "fetch_input"
    /\ espn_data \in EspnSummaries
    /\ missing = <<>>
    /\ raised = "None"
    /\ StatsIdle
    /\ SurveyIdle
    /\ CompileIdle
    /\ StoreIdle
    /\ ArchiveIdle
    /\ RenderIdle
    /\ CliIdle

ParseEspnResponse ==
    /\ pc = "fetch_input"
    /\ LET call == _parse_espn_response(espn_data, EventId)
       IN  /\ raised' = call.raised
           /\ match_data' = IF call.raised = "None" THEN call.value ELSE match_data
    /\ pc' = "parsed"
    /\ UNCHANGED <<permVars, cliVars, values, stats, sections, responses, motm_winners, results, storeVars,
                   archiveVars, renderVars, espn_data, missing>>

NextFetch == ParseEspnResponse

SpecFetch == InitFetch /\ [][NextFetch]_vars

\* the competitors of the event, when it has a competition
EventCompetitors ==
    IF "header" \in DOMAIN espn_data /\ espn_data.header.competitions # <<>>
        THEN espn_data.header.competitions[1].competitors
    ELSE <<>>

\* Tottenham is the competitor of the event on the given side
TottenhamPlays(side) ==
    \E i \in DOMAIN EventCompetitors :
        /\ "homeAway" \in DOMAIN EventCompetitors[i]
        /\ EventCompetitors[i].homeAway = side
        /\ EventCompetitors[i].team.id = <<"3", "6", "7">>

\* C19: _parse_espn_response rejects with a ValueError, producing no
\* MatchData, every event in which neither the home nor the away competitor
\* is Tottenham; for an event in which Tottenham takes part it returns a
\* MatchData whose is_tottenham_home is true exactly when Tottenham is the
\* home competitor.
C19_RejectsEventsWithoutTottenham ==
    pc = "parsed" =>
        IF TottenhamPlays("home") \/ TottenhamPlays("away")
            THEN /\ raised = "None"
                 /\ match_data.match_id = EventId
                 /\ match_data.is_tottenham_home <=> TottenhamPlays("home")
        ELSE /\ raised = "ValueError"
             /\ match_data = NoMatchData

\* an event between two other clubs was rejected
C19_Witness ==
    /\ pc = "parsed"
    /\ Len(EventCompetitors) = 2
    /\ ~TottenhamPlays("home")
    /\ ~TottenhamPlays("away")
    /\ raised = "ValueError"
    /\ match_data = NoMatchData

(***************************************************************************)
(* match_data.py: detect_missing_fields on the dict of a MatchData.        *)
(***************************************************************************)
PlayerInfo_to_dict(p) ==
    [name |-> p.name, position |-> p.position, image_path |-> p.image_path,
     shirt_number |-> p.shirt_number]

SubstitutionEvent_to_dict(s) ==
    [player_in |-> s.player_in, player_out |-> s.player_out, minute |-> s.minute]

MatchData_to_dict(md) ==
    [match_id |-> md.match_id, home_team |-> md.home_team, away_team |-> md.away_team,
     competition |-> md.competition, matchday |-> md.matchday, date |-> md.date,
     venue |-> md.venue, formation |-> md.formation, coach |-> md.coach,
     starting_players |->
         [i \in DOMAIN md.starting_players |-> PlayerInfo_to_dict(md.starting_players[i])],
     substitutions |->
         [i \in DOMAIN md.substitutions |-> SubstitutionEvent_to_dict(md.substitutions[i])],
     is_tottenham_home |-> md.is_tottenham_home, home_score |-> md.home_score,
     away_score |-> md.away_score]

_REQUIRED_FIELDS ==
    <<"home_team", "away_team", "competition", "matchday", "date", "venue", "formation",
      "coach">>

is_missing_only_when_absent(data, field_name) == field_name \notin DOMAIN data

\* value is None or value == "" or value == []
IsMissing(data, field_name) ==
    LET value == Get(data, field_name, "None")
    IN  value = "None" \/ value = <<>>

detect_missing_fields(data) ==
    SelectSeq(_REQUIRED_FIELDS, LAMBDA field_name : IsMissing(data, field_name))
        \o (IF Get(data, "starting_players", <<>>) = <<>> THEN <<"starting_players">>
            ELSE <<>>)

(***************************************************************************)
(* SpecMissing: the missing-fields check runs on a MatchData.              *)
(***************************************************************************)
\* the match data of the survey specification, and the same with the
\* formation or the venue left empty
CheckedMatchDatas ==
    SurveyMatchDatas
    \cup { [md EXCEPT !.formation = <<>>] : md \in SurveyMatchDatas }
    \cup { [md EXCEPT !.venue = <<>>] : md \in SurveyMatchDatas }

InitMissing ==
    /\ PermIdle
    /\ pc = "missing_input"
    /\ match_data \in CheckedMatchDatas
    /\ sections = <<>>
    /\ StatsIdle
    /\ CompileIdle
    /\ StoreIdle
    /\ ArchiveIdle
    /\ RenderIdle
    /\ FetchIdle
    /\ data_dict = MatchData_to_dict(match_data)
    /\ cli_args = <<>>
    /\ disk = <<>>
    /\ failing = {}
    /\ log = <<>>
    /\ status = "none"
    /\ stdin = <<>>

DetectMissingFields ==
    /\ pc = "missing_input"
    /\ missing' = detect_missing_fields(data_dict)
    /\ pc' = "missing_detected"
    /\ UNCHANGED <<permVars, cliVars, surveyVars, results,
                   storeVars, archiveVars, renderVars, espn_data, raised>>

NextMissing == DetectMissingFields

SpecMissing == InitMissing /\ [][NextMissing]_vars

\* C20: whenever detect_missing_fields reports no missing field for a
\* MatchData, that MatchData has exactly 11 starting players and every
\* required scalar field is non-empty.
C20_CompleteMeansElevenStarters ==
    (pc = "missing_detected" /\ missing = <<>>) =>
        /\ Len(match_data.starting_players) = 11
        /\ \A i \in DOMAIN _REQUIRED_FIELDS : match_data[_REQUIRED_FIELDS[i]] # <<>>

(***************************************************************************)
(* SpecDetect: detect_missing_fields runs on a dict in which every         *)
(* required field is absent, None, empty or filled in.                     *)
(***************************************************************************)
\* the fields detect_missing_fields looks at, in the order it reports them
CheckedFields == _REQUIRED_FIELDS \o <<"starting_players">>

\* the states of a field: absent, None, '' or [], filled in
FieldStates == {"absent", "None", "empty", "filled"}

\* the dict whose i-th checked field is in the state kinds[i]
DataDict(kinds) ==
    LET present == { i \in DOMAIN CheckedFields : kinds[i] # "absent" }
        value(i) == IF kinds[i] = "None" THEN "None"
                    ELSE IF kinds[i] = "empty" THEN <<>>
                    ELSE IF CheckedFields[i] = "starting_players"
                        THEN << [name |-> <<"P", "1">>] >>
                    ELSE <<"x">>
    IN  [field_name \in { CheckedFields[i] : i \in present } |->
            value(CHOOSE i \in present : CheckedFields[i] = field_name)]

InitDetect ==
    /\ PermIdle
    /\ pc = "missing_input"
    /\ \E kinds \in [DOMAIN CheckedFields -> FieldStates] :
           /\ kinds[Len(CheckedFields)] # "None"
           /\ data_dict = DataDict(kinds)
    /\ cli_args = <<>>
    /\ disk = <<>>
    /\ failing = {}
    /\ log = <<>>
    /\ status = "none"
    /\ stdin = <<>>
    /\ StatsIdle
    /\ SurveyIdle
    /\ CompileIdle
    /\ StoreIdle
    /\ ArchiveIdle
    /\ RenderIdle
    /\ FetchIdle

NextDetect == DetectMissingFields

SpecDetect == InitDetect /\ [][NextDetect]_vars

\* the field is absent from the dict, None, an empty string or an empty list
AbsentOrEmpty(field_name) ==
    \/ field_name \notin DOMAIN data_dict
    \/ data_dict[field_name] = "None"
    \/ data_dict[field_name] = <<>>

\* C21: detect_missing_fields reports exactly the missing fields: a required
\* scalar field is reported if and only if it is absent, None, an empty
\* string or an empty list, and starting_players if and only if the list is
\* absent or empty; no field is reported twice.
C21_ReportsExactlyTheMissing ==
    pc = "missing_detected" =>
        /\ \A i \in DOMAIN CheckedFields :
               (\E j \in DOMAIN missing : missing[j] = CheckedFields[i])
                   <=> AbsentOrEmpty(CheckedFields[i])
        /\ \A j \in DOMAIN missing : \E i \in DOMAIN CheckedFields :
               missing[j] = CheckedFields[i]
        /\ \A j, k \in DOMAIN missing : missing[j] = missing[k] => j = k

\* a dict with the venue None, the coach empty, the formation absent and the
\* line-up filled in: those three and nothing else are reported
C21_Witness ==
    /\ pc = "missing_detected"
    /\ DOMAIN data_dict = { CheckedFields[i] : i \in DOMAIN CheckedFields } \ {"formation"}
    /\ data_dict.venue = "None"
    /\ data_dict.coach # "None"
    /\ data_dict.coach = <<>>
    /\ \A field_name \in DOMAIN data_dict \ {"venue", "coach"} :
           ~AbsentOrEmpty(field_name)
    /\ missing = <<"venue", "formation", "coach">>

(***************************************************************************)
(* cli.py: the subcommand handlers.  A handler works on an environment     *)
(* [disk, log, status]; each step of it is skipped once the handler has    *)
(* left through sys.exit(1) or an exception.                               *)
(***************************************************************************)
_match_data_path == "match_data.json"

_results_path == "results.json"

_infographic_path == "infographic.png"

\* ARCHIVE_DIR/index.json, written by build_site
ArchiveIndexPath == "index.json"

Event(step, event, what) == [step |-> step, event |-> event, what |-> what]

\* the handler is entered
Start(env, step) ==
    [env EXCEPT !.status = "running", !.log = Append(@, Event(step, "start", ""))]

\* if not os.path.isfile(path): print(...); sys.exit(1)
RequireFile(env, path) ==
    IF env.status = "running" /\ env.disk[path] = "absent"
        THEN [env EXCEPT !.status = "exit_1"]
    ELSE env

\* with open(path) as f: ...from_dict(json.load(f))
ReadJson(env, path) ==
    IF env.status = "running" /\ env.disk[path] # "valid"
        THEN [env EXCEPT !.status = "raised"]
    ELSE env

require_form_id_unchecked(env, form_id) == env

\* if not form_id: print(...); sys.exit(1)
RequireFormId(env, form_id) ==
    IF env.status = "running" /\ form_id = <<>>
        THEN [env EXCEPT !.status = "exit_1"]
    ELSE env

\* int(match_id)
RequireInt(env, match_id) ==
    IF env.status = "running" /\ ~ParseInt(match_id).ok
        THEN [env EXCEPT !.status = "raised"]
    ELSE env

\* a call that may raise: a request to ESPN or Google Forms, the renderer,
\* the archive builder
Call(env, step, service, failing_) ==
    IF env.status # "running" THEN env
    ELSE [env EXCEPT !.log = Append(@, Event(step, "call", service)),
                     !.status = IF service \in failing_ THEN "raised" ELSE @]

\* the file is written
WriteFile(env, step, path) ==
    IF env.status # "running" THEN env
    ELSE [env EXCEPT !.disk[path] = "valid",
                     !.log = Append(@, Event(step, "write", path))]

\* the handler returns
Done(env, step) ==
    IF env.status # "running" THEN env
    ELSE [env EXCEPT !.status = "returned", !.log = Append(@, Event(step, "done", ""))]

cmd_fetch(args, env, failing_) ==
    LET entered == Start(env, "fetch")
        numbered == RequireInt(entered, args.match_id)
        fetched == Call(numbered, "fetch", "espn", failing_)
        saved == WriteFile(fetched, "fetch", _match_data_path)
    IN  Done(saved, "fetch")

cmd_create_survey(args, env, failing_) ==
    LET entered == Start(env, "create-survey")
        found == RequireFile(entered, _match_data_path)
        loaded_ == ReadJson(found, _match_data_path)
        created == Call(loaded_, "create-survey", "forms.create", failing_)
    IN  Done(created, "create-survey")

cmd_compile(args, env, failing_) ==
    LET entered == Start(env, "compile")
        found == RequireFile(entered, _match_data_path)
        loaded_ == ReadJson(found, _match_data_path)
        given == RequireFormId(loaded_, args.form_id)
        fetched == Call(given, "compile", "forms.responses", failing_)
        saved == WriteFile(fetched, "compile", _results_path)
    IN  Done(saved, "compile")

cmd_infographic(args, env, failing_) ==
    LET entered == Start(env, "infographic")
        found == RequireFile(entered, _results_path)
        loaded_ == ReadJson(found, _results_path)
        drawn == Call(loaded_, "infographic", "render", failing_)
        saved == WriteFile(drawn, "infographic", _infographic_path)
    IN  Done(saved, "infographic")

cmd_build_site(args, env, failing_) ==
    LET entered == Start(env, "build-site")
        built == Call(entered, "build-site", "site", failing_)
        saved == WriteFile(built, "build-site", ArchiveIndexPath)
    IN  Done(saved, "build-site")

next_step_despite_failure(env, next) == next

\* cmd_run calls the next handler only when the last one has returned
NextStep(env, next) == IF env.status = "returned" THEN next ELSE "exited"

(***************************************************************************)
(* SpecCli: one invocation of the command line.                            *)
(***************************************************************************)
Env == [disk |-> disk, log |-> log, status |-> status]

\* the environment the handler leaves becomes the state
Leaves(env) ==
    /\ disk' = env.disk
    /\ log' = env.log
    /\ status' = env.status

Commands == {"fetch", "create-survey", "compile", "infographic", "build-site", "run"}

InitCli ==
    /\ PermIdle
    /\ pc = "cli_input"
    /\ \E command \in Commands, match_id \in {<<"4", "0", "1">>, <<"x">>},
          form_id \in {<<>>, <<"f">>} :
           cli_args = [command |-> command, match_id |-> match_id, form_id |-> form_id]
    /\ \E md, res \in {"absent", "valid", "garbage"} :
           disk = [path \in {_match_data_path, _results_path, _infographic_path,
                             ArchiveIndexPath} |->
                      IF path = _match_data_path THEN md
                      ELSE IF path = _results_path THEN res
                      ELSE "absent"]
    /\ failing \in SUBSET {"espn", "forms.create", "forms.responses", "render", "site"}
    /\ log = <<>>
    /\ status = "none"
    /\ stdin = <<>>
    /\ data_dict = <<>>
    /\ StatsIdle
    /\ SurveyIdle
    /\ CompileIdle
    /\ StoreIdle
    /\ ArchiveIdle
    /\ RenderIdle
    /\ FetchIdle

otherVars ==
    <<permVars, surveyVars, stats, values, results, storeVars, archiveVars, renderVars, fetchVars,
      data_dict, failing, stdin>>

\* main dispatches to the handler of a single subcommand
Handle(command, env) ==
    /\ pc = "cli_input"
    /\ cli_args.command = command
    /\ Leaves(env)
    /\ pc' = "exited"
    /\ UNCHANGED <<otherVars, cli_args>>

CmdFetch == Handle("fetch", cmd_fetch(cli_args, Env, failing))

CmdCreateSurvey == Handle("create-survey", cmd_create_survey(cli_args, Env, failing))

CmdCompile == Handle("compile", cmd_compile(cli_args, Env, failing))

CmdInfographic == Handle("infographic", cmd_infographic(cli_args, Env, failing))

CmdBuildSite == Handle("build-site", cmd_build_site(cli_args, Env, failing))

\* a step of cmd_run
RunStep(at, env, next) ==
    /\ pc = at
    /\ cli_args.command = "run"
    /\ Leaves(env)
    /\ pc' = NextStep(env, next)
    /\ UNCHANGED otherVars

RunFetch ==
    /\ RunStep("cli_input", cmd_fetch(cli_args, Env, failing), "run_create_survey")
    /\ UNCHANGED cli_args

RunCreateSurvey ==
    /\ RunStep("run_create_survey", cmd_create_survey(cli_args, Env, failing),
               "run_compile")
    /\ UNCHANGED cli_args

\* form_id = input("Enter the Google Form ID: ").strip()
RunCompile ==
    \E form_id \in {<<>>, <<"f">>} :
        /\ cli_args' = [cli_args EXCEPT !.form_id = form_id]
        /\ RunStep("run_compile", cmd_compile(cli_args', Env, failing), "run_infographic")

RunInfographic ==
    /\ RunStep("run_infographic", cmd_infographic(cli_args, Env, failing),
               "run_build_site")
    /\ UNCHANGED cli_args

RunBuildSite ==
    /\ RunStep("run_build_site", cmd_build_site(cli_args, Env, failing), "exited")
    /\ UNCHANGED cli_args

NextCli ==
    \/ CmdFetch
    \/ CmdCreateSurvey
    \/ CmdCompile
    \/ CmdInfographic
    \/ CmdBuildSite
    \/ RunFetch
    \/ RunCreateSurvey
    \/ RunCompile
    \/ RunInfographic
    \/ RunBuildSite

SpecCli == InitCli /\ [][NextCli]_vars

\* the handler called a service or wrote a file
Acted ==
    \E i \in DOMAIN log : log[i].event \in {"call", "write"}

\* the single subcommand has ended
Exited(command) == pc = "exited" /\ cli_args.command = command

\* C22: a subcommand exits with a non-zero status, before calling any
\* external service and before writing any file, when its upstream artifact
\* is missing: create-survey and compile without the match data file,
\* infographic without the results file, compile with an empty form id.
\* (No handler removes a file, so a file absent at the end was absent at the
\* start.)
C22_MissingArtifactExitsNonZero ==
    /\ ((Exited("create-survey") \/ Exited("compile"))
            /\ disk[_match_data_path] = "absent")
           => (status = "exit_1" /\ ~Acted)
    /\ (Exited("infographic") /\ disk[_results_path] = "absent")
           => (status = "exit_1" /\ ~Acted)
    /\ (Exited("compile") /\ cli_args.form_id = <<>>)
           => (status \in {"exit_1", "raised"} /\ ~Acted)

\* compile found the match data and was given an empty form id
C22_Witness ==
    /\ Exited("compile")
    /\ disk[_match_data_path] = "valid"
    /\ cli_args.form_id = <<>>
    /\ status = "exit_1"
    /\ log = << Event("compile", "start", "") >>

\* the start events of the log, in order
Started == SelectSeq(log, LAMBDA ev : ev.event = "start")

RunOrder == <<"fetch", "create-survey", "compile", "infographic", "build-site">>

\* an event of this kind is in the log before position i
Earlier(i, step, event, what) ==
    \E j \in 1..(i - 1) : log[j] = Event(step, event, what)

\* C24: run executes fetch, create-survey, compile, infographic, build-site
\* in that order, each step starting only after the previous one has
\* completed; a step that fails (exception or exit) is the last one to run;
\* when compile starts fetch has written the match data file, and when
\* infographic starts compile has written the results file.
C24_RunIsSequential ==
    cli_args.command = "run" =>
        /\ Len(Started) <= Len(RunOrder)
        /\ \A k \in DOMAIN Started : Started[k].step = RunOrder[k]
        /\ \A i \in DOMAIN log :
               log[i].event = "start" =>
                   /\ i > 1 => log[i - 1].event = "done"
                   /\ \A k \in DOMAIN RunOrder :
                          (\E j \in 1..(i - 1) : log[j] = Event(RunOrder[k], "start", ""))
                              => Earlier(i, RunOrder[k], "done", "")
                   /\ log[i].step = "compile"
                          => Earlier(i, "fetch", "write", _match_data_path)
                   /\ log[i].step = "infographic"
                          => Earlier(i, "compile", "write", _results_path)
        /\ status \in {"exit_1", "raised"} => pc = "exited"

\* the whole chain has run
C24_Witness ==
    /\ cli_args.command = "run"
    /\ pc = "exited"
    /\ status = "returned"
    /\ Len(Started) = 5
    /\ log[Len(log)] = Event("build-site", "done", "")

(***************************************************************************)
(* SpecLoad: load_results reads a results.json it finds on disk, written   *)
(* by save_results and possibly edited since (compile_responses leaves     *)
(* every event count at 0; the counts of a match are entered in the file). *)
(***************************************************************************)
\* (goals, assists, own_goals) found in the file for the first player
FileEventCounts == EventCounts \cup { <<-1, 0, 0>>, <<1, -2, 0>>, <<0, 0, -1>> }

ResultsFiles ==
    { save_results([r EXCEPT !.starting_player_ratings = WithEvents(@, ev)]) :
        r \in CompiledOnce, ev \in FileEventCounts }

InitLoad ==
    /\ PermIdle
    /\ pc = "file_input"
    /\ results_file \in ResultsFiles
    /\ loaded = NoResults
    /\ StatsIdle
    /\ SurveyIdle
    /\ CompileIdle
    /\ ArchiveIdle
    /\ RenderIdle
    /\ FetchIdle
    /\ CliIdle

LoadResultsFile ==
    /\ pc = "file_input"
    /\ loaded' = load_results(results_file)
    /\ pc' = "file_loaded"
    /\ UNCHANGED <<permVars, cliVars, surveyVars, results, results_file, archiveVars, renderVars,
                   fetchVars>>

NextLoad == LoadResultsFile

SpecLoad == InitLoad /\ [][NextLoad]_vars

\* C23: every PlayerRating read back by load_results has goals >= 0,
\* assists >= 0 and own_goals >= 0.
C23_EventCountsNonNegative ==
    pc = "file_loaded" =>
        \A players \in {loaded.starting_player_ratings, loaded.substitute_player_ratings} :
            \A i \in DOMAIN players :
                /\ players[i].goals >= 0
                /\ players[i].assists >= 0
                /\ players[i].own_goals >= 0

(***************************************************************************)
(* match_data.py: prompt_missing_fields, reading the lines of stdin.       *)
(***************************************************************************)
PlayerInfo_from_dict(d) ==
    [name |-> d.name, position |-> d.position,
     image_path |-> Get(d, "image_path", "None"),
     shirt_number |-> Get(d, "shirt_number", "None")]

SubstitutionEvent_from_dict(d) ==
    [player_in |-> d.player_in, player_out |-> d.player_out, minute |-> d.minute]

MatchData_from_dict(d) ==
    LET starters == Get(d, "starting_players", <<>>)
        subs == Get(d, "substitutions", <<>>)
    IN  [match_id |-> d.match_id, home_team |-> d.home_team, away_team |-> d.away_team,
         competition |-> d.competition, matchday |-> d.matchday, date |-> d.date,
         venue |-> d.venue, formation |-> d.formation, coach |-> d.coach,
         starting_players |-> [i \in DOMAIN starters |-> PlayerInfo_from_dict(starters[i])],
         substitutions |-> [i \in DOMAIN subs |-> SubstitutionEvent_from_dict(subs[i])],
         is_tottenham_home |-> Get(d, "is_tottenham_home", TRUE),
         home_score |-> Get(d, "home_score", "None"),
         away_score |-> Get(d, "away_score", "None")]

\* "," in raw
HasComma(raw) == \E i \in DOMAIN raw : raw[i] = ","

\* pname, pos = raw.split(",", 1); PlayerInfo(name=pname.strip(), position=pos.strip())
PlayerOfLine(raw) ==
    LET i == CHOOSE k \in DOMAIN raw : raw[k] = "," /\ \A j \in 1..(k - 1) : raw[j] # ","
    IN  PlayerInfo(Strip(SubSeq(raw, 1, i - 1)), Strip(SubSeq(raw, i + 1, Len(raw))))

\* what a reader of stdin returns: its result and the lines left
Read(result, lines) == Returned([result |-> result, stdin |-> lines])

\* the while True loop of one slot: input() until the line holds a comma
RECURSIVE PromptPlayer(_)
PromptPlayer(lines) ==
    IF lines = <<>> THEN Raised("EOFError")
    ELSE LET raw == Strip(Head(lines))
         IN  IF HasComma(raw) THEN Read(PlayerOfLine(raw), Tail(lines))
             ELSE PromptPlayer(Tail(lines))

\* for i in range(11): the players read so far, the lines left
RECURSIVE PromptPlayers(_, _)
PromptPlayers(players, lines) ==
    IF Len(players) = 11 THEN Read(players, lines)
    ELSE LET slot == PromptPlayer(lines)
         IN  IF slot.raised # "None" THEN slot
             ELSE PromptPlayers(Append(players, slot.value.result), slot.value.stdin)

\* value = input(...).strip(); data[name] = value
PromptScalar(data, name, lines) ==
    IF lines = <<>> THEN Raised("EOFError")
    ELSE Read([data EXCEPT ![name] = Strip(Head(lines))], Tail(lines))

\* for name in missing: ...
RECURSIVE PromptFields(_, _, _)
PromptFields(data, names, lines) ==
    IF names = <<>> THEN Read(data, lines)
    ELSE LET answer ==
                 IF Head(names) = "starting_players"
                     THEN LET read == PromptPlayers(<<>>, lines)
                          IN  IF read.raised # "None" THEN read
                              ELSE Read([data EXCEPT !.starting_players =
                                             [i \in DOMAIN read.value.result |->
                                                 PlayerInfo_to_dict(read.value.result[i])]],
                                        read.value.stdin)
                 ELSE PromptScalar(data, Head(names), lines)
         IN  IF answer.raised # "None" THEN answer
             ELSE PromptFields(answer.value.result, Tail(names), answer.value.stdin)

prompt_missing_fields(match_data_, lines) ==
    LET data == MatchData_to_dict(match_data_)
        missing_ == detect_missing_fields(data)
    IN  IF missing_ = <<>> THEN Read(match_data_, lines)
        ELSE LET filled == PromptFields(data, missing_, lines)
             IN  IF filled.raised # "None" THEN filled
                 ELSE Read(MatchData_from_dict(filled.value.result), filled.value.stdin)

(***************************************************************************)
(* SpecPrompt: cmd_fetch hands the fetched MatchData to                    *)
(* prompt_missing_fields; the user's lines wait on stdin.                  *)
(***************************************************************************)
\* answers to the prompts of scalar fields: nothing, a blank, a value
ScalarLines == { <<>>, <<" ">>, <<" ", "x", " ">> }

PlayerLine(name) == name \o <<",", " ", "M", "F">>

\* lines for the eleven slots: none, the eleven in order, the same with a
\* line without a comma before the third, ten only
PlayerLines ==
    LET eleven == [i \in DOMAIN Squad |-> PlayerLine(Squad[i])]
    IN  { <<>>, eleven,
          SubSeq(eleven, 1, 2) \o << <<"C">> >> \o SubSeq(eleven, 3, 11),
          SubSeq(eleven, 1, 10) }

InitPrompt ==
    /\ PermIdle
    /\ pc = "prompt_input"
    /\ match_data \in CheckedMatchDatas
    /\ sections = <<>>
    /\ data_dict = MatchData_to_dict(match_data)
    /\ \E scalars \in SeqsUpTo(ScalarLines, 2), players \in PlayerLines :
           stdin = scalars \o players
    /\ cli_args = <<>>
    /\ disk = <<>>
    /\ failing = {}
    /\ log = <<>>
    /\ status = "none"
    /\ StatsIdle
    /\ CompileIdle
    /\ StoreIdle
    /\ ArchiveIdle
    /\ RenderIdle
    /\ FetchIdle

\* match_data = prompt_missing_fields(match_data)
PromptMissingFields ==
    /\ pc = "prompt_input"
    /\ LET call == prompt_missing_fields(match_data, stdin)
       IN  /\ raised' = call.raised
           /\ match_data' = IF call.raised = "None" THEN call.value.result ELSE match_data
           /\ stdin' = IF call.raised = "None" THEN call.value.stdin ELSE <<>>
    /\ pc' = "prompted"
    /\ UNCHANGED <<permVars, values, stats, sections, responses, motm_winners, results, storeVars,
                   archiveVars, renderVars, espn_data, missing, data_dict, cli_args, disk,
                   failing, log, status>>

NextPrompt == PromptMissingFields

SpecPrompt == InitPrompt /\ [][NextPrompt]_vars

\* C25: whenever prompt_missing_fields returns, the returned MatchData has
\* no missing required field; when starting_players was missing it returns
\* exactly 11 starting players, each read from a line of the form
\* name,position; when nothing was missing it returns its input unchanged.
C25_PromptingResolvesMissingFields ==
    (pc = "prompted" /\ raised = "None") =>
        /\ detect_missing_fields(MatchData_to_dict(match_data)) = <<>>
        /\ data_dict.starting_players = <<>> => Len(match_data.starting_players) = 11
        /\ detect_missing_fields(data_dict) = <<>>
               => MatchData_to_dict(match_data) = data_dict

(***************************************************************************)
(* The rows of the center region, under SpecRender.                        *)
(***************************************************************************)
\* C26: the formation rows partition the starting-player list: the rows,
\* taken one after another, are the starters in roster order, each exactly
\* once, no row holding more players than its count in the layout of the
\* formation; with a formation that is not in the table there is one flat
\* row of all the starters.
C26_RowsPartitionTheStarters ==
    pc = "rendered" =>
        /\ Flatten(rows) = results.starting_player_ratings
        /\ Len(rows) = Len(Layout(results))
        /\ \A i \in DOMAIN rows : Len(rows[i]) <= Layout(results)[i][2]
        /\ results.formation \notin DOMAIN FORMATION_LAYOUTS =>
               rows = <<results.starting_player_ratings>>

(***************************************************************************)
(* The winners and the players of the compiled results, under SpecCompile.  *)
(***************************************************************************)
\* C27: each name in motm_winners is the name of a player of
\* starting_player_ratings or substitute_player_ratings, and that player
\* has is_motm = TRUE.
C27_WinnersAreFlaggedPlayers ==
    pc = "compiled" =>
        \A i \in DOMAIN results.motm_winners :
            \E j \in DOMAIN CompiledPlayers :
                /\ CompiledPlayers[j].name = results.motm_winners[i]
                /\ CompiledPlayers[j].is_motm

(***************************************************************************)
(* The titles of the survey and the keys of the compiler, under SpecSurvey. *)
(***************************************************************************)
PairwiseDistinct(s) == \A i, j \in DOMAIN s : s[i] = s[j] => i = j

SectionTitles == [i \in DOMAIN sections |-> sections[i].title]

\* the keys compile_responses computes a statistic or the winners from
CompileKeys(md) ==
    << team_key, opponent_key(md), referee_key, coach_xi_key(md), coach_tactics_key(md),
       coach_subs_key(md), motm_key >>
        \o [i \in DOMAIN StarterNames(md) |-> player_key(StarterNames(md)[i])]
        \o [i \in DOMAIN SubNames(md) |-> player_key(SubNames(md)[i])]

PlayerNamesDistinct == PairwiseDistinct(StarterNames(match_data) \o SubNames(match_data))

\* C28 as stated: for every MatchData whose starting-player names and
\* substitute-in names are pairwise distinct, the titles of all sections of
\* build_survey_structure are pairwise distinct, and no two statistics of
\* compile_responses read the same key.
C28_TitlesAreDistinct ==
    (pc = "survey_built" /\ PlayerNamesDistinct) =>
        /\ PairwiseDistinct(SectionTitles)
        /\ PairwiseDistinct(CompileKeys(match_data))

\* C28 amended: the same, for a MatchData whose opponent (away_team when
\* is_tottenham_home, else home_team) is not named "Tottenham Hotspur".
C28_TitlesAreDistinctForAnotherOpponent ==
    (pc = "survey_built" /\ PlayerNamesDistinct
        /\ SurveyOpponent(match_data) # TOTTENHAM) =>
        /\ PairwiseDistinct(SectionTitles)
        /\ PairwiseDistinct(CompileKeys(match_data))

\* a survey of 21 sections: players named like the opponent, the coach and
\* the club among the eleven starters, and two substitutes
C28_Witness ==
    /\ pc = "survey_built"
    /\ PlayerNamesDistinct
    /\ SurveyOpponent(match_data) = <<"Newcastle">>
    /\ Len(match_data.starting_players) = 11
    /\ match_data.starting_players[1].name = <<"Newcastle">>
    /\ match_data.starting_players[3].name = TOTTENHAM
    /\ Len(match_data.substitutions) = 2
    /\ Len(sections) = 21

(***************************************************************************)
(* SpecRebuild: build_site runs again and again against the same output    *)
(* directory; between two runs a match subdirectory is added to the data   *)
(* directory or removed from it.                                           *)
(***************************************************************************)
\* a child is added to the data directory or removed from it
ChangeDataDir ==
    /\ pc = "site_built"
    /\ data_dir.kind = "dir"
    /\ \E name \in ChildNames :
           IF name \in DOMAIN data_dir.children
               THEN data_dir' = Directory([n \in DOMAIN data_dir.children \ {name} |->
                                              data_dir.children[n]])
           ELSE \E child \in ChildContents :
                    data_dir' = Directory([n \in DOMAIN data_dir.children \cup {name} |->
                                              IF n = name THEN child
                                              ELSE data_dir.children[n]])
    /\ pc' = "site_input"
    /\ UNCHANGED <<permVars, cliVars, surveyVars, results, storeVars, site, entries, criteria,
                   selected, renderVars, fetchVars>>

NextRebuild == BuildSite \/ ChangeDataDir

SpecRebuild == InitSite /\ [][NextRebuild]_vars

\* C29: after any sequence of build_site runs against the same output
\* directory, the entries of the index written by the last run and the
\* match-id directories under matches/ correspond one to one: the entries
\* have distinct match ids, the directory of each holds that match's results
\* file, and every directory under matches/ belongs to an entry.
C29_IndexMirrorsMatchDirectories ==
    pc = "site_built" =>
        /\ \A i, j \in DOMAIN site.index :
               site.index[i].match_id = site.index[j].match_id => i = j
        /\ \A i \in DOMAIN site.index :
               LET match_id == StrOfInt(site.index[i].match_id)
               IN  /\ match_id \in DOMAIN site.matches
                   /\ site.matches[match_id].results_json.document.match_id
                          = site.index[i].match_id
        /\ \A match_id \in DOMAIN site.matches :
               \E i \in DOMAIN site.index : StrOfInt(site.index[i].match_id) = match_id

(***************************************************************************)
(* IEEE 754 binary64, the dtype=float of _compute_rating_stats.  A         *)
(* non-negative float is [m, e], standing for m * 2^e, with m = 0 or       *)
(* 2^52 <= m < 2^53; m is a natural number written in limbs of LimbBits    *)
(* bits, lowest limb first, without leading zero limbs.  Every operation   *)
(* rounds to nearest, ties to even.                                        *)
(***************************************************************************)
LimbBits == 14

LimbBase == 2 ^ LimbBits

Mantissa == 53

RECURSIVE BigOfInt(_)
BigOfInt(n) == IF n = 0 THEN <<>> ELSE <<n % LimbBase>> \o BigOfInt(n \div LimbBase)

RECURSIVE Trim(_)
Trim(a) ==
    IF a # <<>> /\ a[Len(a)] = 0 THEN Trim(SubSeq(a, 1, Len(a) - 1)) ELSE a

RECURSIVE BigAddCarry(_, _, _)
BigAddCarry(a, b, carry) ==
    IF a = <<>> /\ b = <<>> THEN (IF carry = 0 THEN <<>> ELSE <<carry>>)
    ELSE LET x == IF a = <<>> THEN 0 ELSE Head(a)
             y == IF b = <<>> THEN 0 ELSE Head(b)
             t == x + y + carry
         IN  <<t % LimbBase>>
                 \o BigAddCarry(IF a = <<>> THEN a ELSE Tail(a),
                                IF b = <<>> THEN b ELSE Tail(b), t \div LimbBase)

BigAdd(a, b) == BigAddCarry(a, b, 0)

\* a - b for a >= b, limb by limb, before the leading zeros are dropped
RECURSIVE BigSubBorrow(_, _, _)
BigSubBorrow(a, b, borrow) ==
    IF a = <<>> THEN <<>>
    ELSE LET y == IF b = <<>> THEN 0 ELSE Head(b)
             t == Head(a) - y - borrow
         IN  <<t % LimbBase>>
                 \o BigSubBorrow(Tail(a), IF b = <<>> THEN b ELSE Tail(b),
                                 IF t < 0 THEN 1 ELSE 0)

BigSub(a, b) == Trim(BigSubBorrow(a, b, 0))

\* -1, 0, 1 as a < b, a = b, a > b
RECURSIVE BigCmp(_, _)
BigCmp(a, b) ==
    IF Len(a) # Len(b) THEN (IF Len(a) < Len(b) THEN -1 ELSE 1)
    ELSE IF a = <<>> THEN 0
    ELSE IF a[Len(a)] # b[Len(b)] THEN (IF a[Len(a)] < b[Len(b)] THEN -1 ELSE 1)
    ELSE BigCmp(Trim(SubSeq(a, 1, Len(a) - 1)), Trim(SubSeq(b, 1, Len(b) - 1)))

\* a * k + carry for 0 <= k < LimbBase
RECURSIVE BigMulSmall(_, _, _)
BigMulSmall(a, k, carry) ==
    IF a = <<>> THEN BigOfInt(carry)
    ELSE LET t == Head(a) * k + carry
         IN  <<t % LimbBase>> \o BigMulSmall(Tail(a), k, t \div LimbBase)

\* a * LimbBase
ShiftLimb(a) == IF a = <<>> THEN <<>> ELSE <<0>> \o a

RECURSIVE BigMul(_, _)
BigMul(a, b) ==
    IF a = <<>> \/ b = <<>> THEN <<>>
    ELSE BigAdd(Trim(BigMulSmall(a, Head(b), 0)), ShiftLimb(BigMul(a, Tail(b))))

\* quotient and remainder of a by k, 0 < k < LimbBase, from the top limb down
RECURSIVE BigDivSmall(_, _)
BigDivSmall(a, k) ==
    IF a = <<>> THEN [q |-> <<>>, r |-> 0]
    ELSE LET high == BigDivSmall(Tail(a), k)
             t == high.r * LimbBase + Head(a)
         IN  [q |-> Trim(<<t \div k>> \o high.q), r |-> t % k]

\* a * 2^s
RECURSIVE BigShl(_, _)
BigShl(a, s) ==
    IF s >= LimbBits THEN BigShl(ShiftLimb(a), s - LimbBits)
    ELSE Trim(BigMulSmall(a, 2 ^ s, 0))

\* floor(a / 2^s)
RECURSIVE BigShr(_, _)
BigShr(a, s) ==
    IF a = <<>> THEN <<>>
    ELSE IF s >= LimbBits THEN BigShr(Tail(a), s - LimbBits)
    ELSE BigDivSmall(a, 2 ^ s).q

RECURSIVE IntBitLen(_)
IntBitLen(n) == IF n = 0 THEN 0 ELSE 1 + IntBitLen(n \div 2)

\* number of binary digits of a
BitLen(a) == IF a = <<>> THEN 0 ELSE LimbBits * (Len(a) - 1) + IntBitLen(a[Len(a)])

BigIsOdd(a) == a # <<>> /\ Head(a) % 2 = 1

\* floor(sqrt(a)), one binary digit at a time from bit k down
RECURSIVE BigSqrtFrom(_, _, _)
BigSqrtFrom(a, root, k) ==
    IF k < 0 THEN root
    ELSE LET bigger == BigAdd(root, BigShl(<<1>>, k))
             fits == BigCmp(BigMul(bigger, bigger), a) <= 0
         IN  IF fits THEN BigSqrtFrom(a, bigger, k - 1) ELSE BigSqrtFrom(a, root, k - 1)

BigSqrt(a) == BigSqrtFrom(a, <<>>, BitLen(a) \div 2)

Float(m, e) == [m |-> m, e |-> e]

FloatZero == Float(<<>>, 0)

\* the float nearest to (n + f) * 2^e, where 0 < f < 1 when sticky and f = 0
\* otherwise; with sticky, n has more than Mantissa digits
RoundToFloat(n, e, sticky) ==
    IF n = <<>> THEN FloatZero
    ELSE IF BitLen(n) <= Mantissa
        THEN Float(BigShl(n, Mantissa - BitLen(n)), e - (Mantissa - BitLen(n)))
    ELSE LET s == BitLen(n) - Mantissa
             q == BigShr(n, s)
             r == BigSub(n, BigShl(q, s))
             half == BigCmp(r, BigShl(<<1>>, s - 1))
             up == half > 0 \/ (half = 0 /\ (sticky \/ BigIsOdd(q)))
             m == IF up THEN BigAdd(q, <<1>>) ELSE q
         IN  IF BitLen(m) > Mantissa THEN Float(BigShr(m, 1), e + s + 1)
             ELSE Float(m, e + s)

\* float(n) for an int n >= 0
FloatOfInt(n) == RoundToFloat(BigOfInt(n), 0, FALSE)

\* a + b
FloatAdd(a, b) ==
    IF a.m = <<>> THEN b
    ELSE IF b.m = <<>> THEN a
    ELSE LET e == IF a.e < b.e THEN a.e ELSE b.e
         IN  RoundToFloat(BigAdd(BigShl(a.m, a.e - e), BigShl(b.m, b.e - e)), e, FALSE)

\* |a - b|
FloatAbsDiff(a, b) ==
    IF a.m = <<>> THEN b
    ELSE IF b.m = <<>> THEN a
    ELSE LET e == IF a.e < b.e THEN a.e ELSE b.e
             x == BigShl(a.m, a.e - e)
             y == BigShl(b.m, b.e - e)
         IN  RoundToFloat(IF BigCmp(x, y) >= 0 THEN BigSub(x, y) ELSE BigSub(y, x), e, FALSE)

\* a * b
FloatMul(a, b) == RoundToFloat(BigMul(a.m, b.m), a.e + b.e, FALSE)

\* a / n for an int n, 0 < n < LimbBase
FloatDivInt(a, n) ==
    LET d == BigDivSmall(BigShl(a.m, LimbBits + 2), n)
    IN  RoundToFloat(d.q, a.e - (LimbBits + 2), d.r # 0)

\* sqrt(a)
FloatSqrt(a) ==
    LET shift == Mantissa + 3 + ((a.e + Mantissa + 3) % 2)
        scaled == BigShl(a.m, shift)
        root == BigSqrt(scaled)
    IN  RoundToFloat(root, (a.e - shift) \div 2, BigCmp(BigMul(root, root), scaled) # 0)

\* np.sum: the accumulator takes the elements in index order
RECURSIVE FloatSumFrom(_, _)
FloatSumFrom(acc, arr) ==
    IF arr = <<>> THEN acc ELSE FloatSumFrom(FloatAdd(acc, Head(arr)), Tail(arr))

FloatSum(arr) == FloatSumFrom(FloatZero, arr)

\* np.array(values, dtype=float) for ratings >= 0
Float64Array(vals) == [i \in DOMAIN vals |-> FloatOfInt(vals[i])]

\* np.mean(arr): the sum divided by the number of elements
Float64Mean(arr) == FloatDivInt(FloatSum(arr), Len(arr))

\* np.std(arr, ddof=0): sqrt(sum((arr - mean)^2) / N); the squares make the
\* sign of arr - mean immaterial
Float64Std(arr) ==
    LET mean == Float64Mean(arr)
        x == [i \in DOMAIN arr |-> FloatAbsDiff(arr[i], mean)]
        squares == [i \in DOMAIN arr |-> FloatMul(x[i], x[i])]
    IN  FloatSqrt(FloatDivInt(FloatSum(squares), Len(arr)))

\* _compute_rating_stats in binary64
compute_rating_stats_binary64(vals) ==
    RatingStats(Float64Mean(Float64Array(vals)), Float64Std(Float64Array(vals)))

\* _stats_for(key) in binary64
stats_for_binary64(resps, key) ==
    LET vals == _extract_ratings(resps, key)
    IN  IF vals = <<>> THEN RatingStats(FloatZero, FloatZero)
        ELSE compute_rating_stats_binary64(vals)

\* the keys compile_responses computes rating statistics from: team,
\* opponent, referee, the coach's three, then the players
FixedRatingKeys(md) ==
    << team_key, opponent_key(md), referee_key, coach_xi_key(md), coach_tactics_key(md),
       coach_subs_key(md) >>

RatingKeys(md) ==
    FixedRatingKeys(md)
        \o [i \in DOMAIN StarterNames(md) |-> player_key(StarterNames(md)[i])]
        \o [i \in DOMAIN SubNames(md) |-> player_key(SubNames(md)[i])]

\* the floats of compile_responses: the statistics of every key, and
\* overall_rating, np.mean of the players' means
compile_responses_binary64(resps, md) ==
    LET keys == RatingKeys(md)
        ratings == [i \in DOMAIN keys |-> stats_for_binary64(resps, keys[i])]
        fixed == Len(FixedRatingKeys(md))
        all_player_means == [i \in 1..(Len(keys) - fixed) |-> ratings[fixed + i].mean]
    IN  [ratings |-> ratings,
         overall_rating |-> IF all_player_means = <<>> THEN FloatZero
                            ELSE Float64Mean(all_player_means)]

(***************************************************************************)
(* SpecPermute: at most MaxPermuted response records are compiled in the   *)
(* order given and in another order.                                       *)
(***************************************************************************)
\* a home match with starters A, B and substitute S
PermutedMatchData ==
    MatchData(TOTTENHAM, <<"Newcastle">>, <<"Ange">>, Lineup(SubSeq(Squad, 1, 2)),
              <<SubstitutionEvent(<<"S">>, <<"B">>, 60)>>, TRUE)

\* a record rating player A and voting
RatingAndVote(rating, vote) ==
    [k \in {player_key(<<"A">>), motm_key} |-> IF k = motm_key THEN vote ELSE rating]

\* records rating A 0, 3, 10 or "x" and voting A or B (one with a blank
\* after the name); a record rating the team and B only; an empty record
PermutedRecords ==
    { RatingAndVote(<<"0">>, <<"A">>),
      RatingAndVote(<<"3">>, <<"B", " ">>),
      RatingAndVote(<<"1", "0">>, <<"A">>),
      RatingAndVote(<<"x">>, <<"B">>),
      [k \in {team_key, player_key(<<"B">>)} |-> <<"4">>],
      EmptyDict }

\* the orders of a list
PermutationsOf(s) ==
    { [i \in DOMAIN s |-> s[f[i]]] :
        f \in { g \in [DOMAIN s -> DOMAIN s] : \A i, j \in DOMAIN s : g[i] = g[j] => i = j } }

InitPermute ==
    /\ pc = "permute_input"
    /\ match_data = PermutedMatchData
    /\ responses \in SeqsUpTo(PermutedRecords, MaxPermuted)
    /\ permuted = <<>>
    /\ recompiled = NoResults
    /\ binary64 = <<>>
    /\ sections = <<>>
    /\ motm_winners = <<>>
    /\ results = NoResults
    /\ StatsIdle
    /\ StoreIdle
    /\ ArchiveIdle
    /\ RenderIdle
    /\ FetchIdle
    /\ CliIdle

\* the caller hands over the same records in some order
Permute ==
    /\ pc = "permute_input"
    /\ permuted' \in PermutationsOf(responses)
    /\ pc' = "permuted"
    /\ UNCHANGED <<cliVars, storeVars, archiveVars, renderVars, fetchVars, values, stats, match_data, sections, responses, motm_winners, results, recompiled, binary64>>

\* compile_responses(responses, match_data) and
\* compile_responses(permuted, match_data)
CompileBothOrders ==
    /\ pc = "permuted"
    /\ results' = compile_responses(responses, match_data)
    /\ recompiled' = compile_responses(permuted, match_data)
    /\ binary64' = << compile_responses_binary64(responses, match_data),
                      compile_responses_binary64(permuted, match_data) >>
    /\ pc' = "both_compiled"
    /\ UNCHANGED <<cliVars, storeVars, archiveVars, renderVars, fetchVars, values, stats, match_data, sections, responses, motm_winners, permuted>>

NextPermute ==
    \/ Permute
    \/ CompileBothOrders

SpecPermute == InitPermute /\ [][NextPermute]_vars

\* the means of the statistics and the overall rating
Binary64Means(compiled) ==
    << [i \in DOMAIN compiled.ratings |-> compiled.ratings[i].mean], compiled.overall_rating >>

====
